---- MODULE Spec2Model ----
(***************************************************************************)
(* Transaction ingestion, deduplication and categorization pipeline of the *)
(* personal-finance skill (scripts/csv_import.py, scripts/categorize.py,   *)
(* scripts/db.py).                                                         *)
(*                                                                         *)
(* Text is modelled by TLA+ strings, one character per element, so that    *)
(* trimming, lowercasing, splitting and matching are computed character by *)
(* character as the Python code computes them.                             *)
(***************************************************************************)
EXTENDS Integers, Sequences, FiniteSets, TLC

(***************************************************************************)
(* Python str primitives                                                   *)
(***************************************************************************)

None == "<None>"

Ch(s, i) == SubSeq(s, i, i)

Tail1(s) == SubSeq(s, 2, Len(s))

UpperChars == "ABCDEFGHIJKLMNOPQRSTUVWXYZÉÄÖÜ"
LowerChars == "abcdefghijklmnopqrstuvwxyzéäöü"

\* The strings of this module end at U+00FF.  Two characters beyond it are
\* written with characters that stand for nothing else here: the capital I
\* with dot above (U+0130) and the combining dot above (U+0307).
CapitalIWithDot == "Ì"
CombiningDot == "¨"

\* str.lower() of one character; that of U+0130 is the two characters i, U+0307
LowerChar(c) ==
    IF c = CapitalIWithDot THEN "i" \o CombiningDot
    ELSE IF \E i \in 1..Len(UpperChars) : Ch(UpperChars, i) = c
    THEN Ch(LowerChars, CHOOSE i \in 1..Len(UpperChars) : Ch(UpperChars, i) = c)
    ELSE c

UpperChar(c) ==
    IF \E i \in 1..Len(LowerChars) : Ch(LowerChars, i) = c
    THEN Ch(UpperChars, CHOOSE i \in 1..Len(LowerChars) : Ch(LowerChars, i) = c)
    ELSE c

RECURSIVE Lower(_)
Lower(s) == IF s = "" THEN "" ELSE LowerChar(Ch(s, 1)) \o Lower(Tail1(s))

RECURSIVE Upper(_)
Upper(s) == IF s = "" THEN "" ELSE UpperChar(Ch(s, 1)) \o Upper(Tail1(s))

\* the whitespace characters that occur in the modelled texts
IsSpace(c) == c \in {" ", "\t"}

RECURSIVE LStrip(_)
LStrip(s) == IF s # "" /\ IsSpace(Ch(s, 1)) THEN LStrip(Tail1(s)) ELSE s

RECURSIVE RStrip(_)
RStrip(s) ==
    IF s # "" /\ IsSpace(Ch(s, Len(s))) THEN RStrip(SubSeq(s, 1, Len(s) - 1)) ELSE s

\* str.strip()
Strip(s) == LStrip(RStrip(s))

StartsWith(s, p) == Len(p) <= Len(s) /\ SubSeq(s, 1, Len(p)) = p

EndsWith(s, p) == Len(p) <= Len(s) /\ SubSeq(s, Len(s) - Len(p) + 1, Len(s)) = p

\* sub in s
Contains(s, sub) ==
    \E i \in 1..(Len(s) - Len(sub) + 1) : SubSeq(s, i, i + Len(sub) - 1) = sub

\* index (1-based) of the first occurrence of sub in s at or after position from, 0 if none
FindFrom(s, sub, from) ==
    LET hits == {i \in from..(Len(s) - Len(sub) + 1) : SubSeq(s, i, i + Len(sub) - 1) = sub}
    IN  IF hits = {} THEN 0 ELSE CHOOSE i \in hits : \A j \in hits : i <= j

\* s.replace(c, r) for a one-character c
RECURSIVE Replace(_, _, _)
Replace(s, c, r) ==
    IF s = "" THEN ""
    ELSE (IF Ch(s, 1) = c THEN r ELSE Ch(s, 1)) \o Replace(Tail1(s), c, r)

\* re.sub(r'[<chars>]', '', s): drop every character of s that is in the set
RECURSIVE DropChars(_, _)
DropChars(s, set) ==
    IF s = "" THEN ""
    ELSE (IF Ch(s, 1) \in set THEN "" ELSE Ch(s, 1)) \o DropChars(Tail1(s), set)

\* the cells of one unquoted line as csv.reader yields them: a blank line gives
\* no cell at all, any other line is cut at every delimiter
RECURSIVE SplitOn(_, _)
SplitOn(s, d) ==
    LET i == FindFrom(s, d, 1)
    IN  IF i = 0 THEN <<s>>
        ELSE <<SubSeq(s, 1, i - 1)>> \o SplitOn(SubSeq(s, i + 1, Len(s)), d)

csv_row(line, delimiter) == IF line = "" THEN <<>> ELSE SplitOn(line, delimiter)

\* str.split(): the maximal runs of non-whitespace characters
RECURSIVE Words(_)
Words(s) ==
    LET t == LStrip(s)
        ends == {i \in 1..Len(t) : IsSpace(Ch(t, i))}
        e == IF ends = {} THEN Len(t) + 1 ELSE CHOOSE i \in ends : \A j \in ends : i <= j
    IN  IF t = "" THEN <<>>
        ELSE <<SubSeq(t, 1, e - 1)>> \o Words(SubSeq(t, e, Len(t)))

\* sep.join(parts)
RECURSIVE Join(_, _)
Join(parts, sep) ==
    IF parts = <<>> THEN ""
    ELSE IF Len(parts) = 1 THEN parts[1]
    ELSE parts[1] \o sep \o Join(Tail(parts), sep)

Digits == "0123456789"

IsDigit(c) == c # "" /\ Contains(Digits, c) /\ Len(c) = 1

DigitVal(c) == (CHOOSE i \in 1..10 : Ch(Digits, i) = c) - 1

AllDigits(s) == s # "" /\ \A i \in 1..Len(s) : IsDigit(Ch(s, i))

\* int(s) for a string of digits
RECURSIVE NatOf(_)
NatOf(s) == IF s = "" THEN 0 ELSE NatOf(SubSeq(s, 1, Len(s) - 1)) * 10 + DigitVal(Ch(s, Len(s)))

\* str(n) for n >= 0
RECURSIVE NatStr(_)
NatStr(n) == IF n < 10 THEN Ch(Digits, n + 1) ELSE NatStr(n \div 10) \o Ch(Digits, (n % 10) + 1)

\* n formatted in at least w digits, zero padded
RECURSIVE Pad0(_, _)
Pad0(t, w) == IF Len(t) >= w THEN t ELSE Pad0("0" \o t, w)

Pad(n, w) == Pad0(NatStr(n), w)

(***************************************************************************)
(* Python float values.  A finite amount is held in thousandths (the       *)
(* amounts of the model carry at most three decimals); nan and the two     *)
(* infinities, which float() also parses, are values of their own.         *)
(***************************************************************************)

Num(n) == [k |-> "num", v |-> n]
NaN == [k |-> "nan", v |-> 0]
Inf(sign) == [k |-> "inf", v |-> sign]

Zero == Num(0)

\* -a
AmtNeg(a) == IF a.k = "nan" THEN NaN ELSE [k |-> a.k, v |-> 0 - a.v]

\* abs(a)
AmtAbs(a) == IF a.k = "nan" THEN NaN ELSE [k |-> a.k, v |-> IF a.v < 0 THEN 0 - a.v ELSE a.v]

\* a - b
AmtSub(a, b) ==
    IF a.k = "nan" \/ b.k = "nan" THEN NaN
    ELSE IF a.k = "inf" THEN (IF b.k = "inf" /\ b.v = a.v THEN NaN ELSE a)
    ELSE IF b.k = "inf" THEN AmtNeg(b)
    ELSE Num(a.v - b.v)

\* a == 0.0
AmtIsZero(a) == a.k = "num" /\ a.v = 0

\* bool(a)
AmtTruthy(a) == ~AmtIsZero(a)

\* a > n and a < n for a number n of thousandths; every comparison with nan is false
AmtGt(a, n) == (a.k = "num" /\ a.v > n) \/ (a.k = "inf" /\ a.v > 0)
AmtLt(a, n) == (a.k = "num" /\ a.v < n) \/ (a.k = "inf" /\ a.v < 0)
AmtLe(a, n) == (a.k = "num" /\ a.v <= n) \/ (a.k = "inf" /\ a.v < 0)
AmtGe(a, n) == (a.k = "num" /\ a.v >= n) \/ (a.k = "inf" /\ a.v > 0)

\* the digits of an unsigned decimal literal (digits, optionally a point and
\* more digits, at least one digit in all) as thousandths; -1 if s is none
DecimalOf(s) ==
    LET thousandths(ip, fp) ==
            IF (ip = "" \/ AllDigits(ip)) /\ (fp = "" \/ AllDigits(fp)) /\ (ip # "" \/ fp # "")
            THEN NatOf(ip) * 1000 + NatOf(SubSeq(fp \o "000", 1, 3))
            ELSE 0 - 1
        split_at(p) == thousandths(IF p = 0 THEN s ELSE SubSeq(s, 1, p - 1),
                                   IF p = 0 THEN "" ELSE SubSeq(s, p + 1, Len(s)))
    IN  split_at(FindFrom(s, ".", 1))

\* float(s): [ok |-> whether s parses, val |-> the value].  Exponents and digit
\* group underscores are not part of the modelled amount cells.
py_float(s) ==
    LET value(neg, w, d) ==
            IF w = "nan" THEN [ok |-> TRUE, val |-> NaN]
            ELSE IF w = "inf" \/ w = "infinity"
                 THEN [ok |-> TRUE, val |-> Inf(IF neg THEN 0 - 1 ELSE 1)]
            ELSE IF d >= 0 THEN [ok |-> TRUE, val |-> Num(IF neg THEN 0 - d ELSE d)]
            ELSE [ok |-> FALSE, val |-> Zero]
        unsigned(neg, u) == value(neg, Lower(u), DecimalOf(u))
        signed(t) == unsigned(StartsWith(t, "-"),
                              IF StartsWith(t, "-") \/ StartsWith(t, "+") THEN Tail1(t) ELSE t)
    IN  signed(Strip(s))

\* f"{amount:.2f}": two decimals, rounded to the nearest cent (no modelled
\* amount lies exactly between two cents); a negative amount keeps its sign
\* even when it rounds to zero
format_2f(a) ==
    LET m == IF a.v < 0 THEN 0 - a.v ELSE a.v
        r == m % 10
        b == m \div 10
        c == IF r > 5 \/ (r = 5 /\ b % 2 = 1) THEN b + 1 ELSE b
    IN  IF a.k = "nan" THEN "nan"
        ELSE IF a.k = "inf" THEN (IF a.v < 0 THEN "-inf" ELSE "inf")
        ELSE (IF a.v < 0 THEN "-" ELSE "") \o NatStr(c \div 100) \o "." \o Pad(c % 100, 2)

(***************************************************************************)
(* csv_import.py: field normalizer                                         *)
(***************************************************************************)

CurrencyCodes ==
    <<"EUR", "USD", "GBP", "CHF", "JPY", "CAD", "AUD", "SEK", "NOK", "DKK", "PLN", "CZK", "HUF">>

\* the currency glyphs of the source's character class that a module can spell
CurrencyGlyphs == {"$", "£", "¥"}

\* re.sub(r'^(EUR|...)\s*', '', value, flags=re.IGNORECASE)
StripLeadingCode(value) ==
    IF \E i \in 1..Len(CurrencyCodes) : StartsWith(Upper(value), CurrencyCodes[i])
    THEN LStrip(SubSeq(value, 4, Len(value)))
    ELSE value

\* re.sub(r'\s*(EUR|...)$', '', value, flags=re.IGNORECASE)
StripTrailingCode(value) ==
    IF \E i \in 1..Len(CurrencyCodes) : EndsWith(Upper(value), CurrencyCodes[i])
    THEN RStrip(SubSeq(value, 1, Len(value) - 3))
    ELSE value

parse_amount(value, decimal_separator) ==
    LET parsed(f) == IF f.ok THEN f.val ELSE Zero
        \* CR/DR suffixes
        suffixed(v, upper) ==
            parsed(py_float(IF EndsWith(upper, "CR") THEN SubSeq(v, 1, Len(v) - 2)
                            ELSE IF EndsWith(upper, "DR") THEN "-" \o SubSeq(v, 1, Len(v) - 2)
                            ELSE v))
        signed(v) == suffixed(v, Upper(v))
        \* parentheses for negative numbers
        bracketed(v) == signed(IF StartsWith(v, "(") /\ EndsWith(v, ")")
                               THEN "-" \o SubSeq(v, 2, Len(v) - 1)
                               ELSE v)
        \* thousand and decimal separators
        separated(v) == bracketed(IF decimal_separator = ","
                                  THEN Replace(DropChars(v, {"."}), ",", ".")
                                  ELSE DropChars(v, {","}))
        \* currency codes, currency symbols and whitespace
        cleaned(v) ==
            IF v = "" THEN Zero
            ELSE separated(DropChars(StripTrailingCode(StripLeadingCode(v)),
                                     CurrencyGlyphs \cup {" ", "\t"}))
    IN  IF value = "" THEN Zero ELSE cleaned(Strip(value))

(***************************************************************************)
(* Python datetime.date values: records [y, m, d]; NoDate stands for None. *)
(***************************************************************************)

NoDate == [y |-> 0, m |-> 0, d |-> 0]

IsLeap(y) == (y % 4 = 0 /\ y % 100 # 0) \/ y % 400 = 0

DaysInMonth(y, m) ==
    IF m = 2 THEN (IF IsLeap(y) THEN 29 ELSE 28)
    ELSE IF m \in {4, 6, 9, 11} THEN 30 ELSE 31

\* what the datetime constructor accepts
ValidDate(y, m, d) ==
    /\ y >= 1 /\ y <= 9999
    /\ m >= 1 /\ m <= 12
    /\ d >= 1 /\ d <= DaysInMonth(y, m)

RECURSIVE DaysBeforeMonth(_, _)
DaysBeforeMonth(y, m) == IF m = 1 THEN 0 ELSE DaysBeforeMonth(y, m - 1) + DaysInMonth(y, m - 1)

\* date.toordinal(): 1 for 0001-01-01
toordinal(dt) ==
    LET p == dt.y - 1
    IN  p * 365 + (p \div 4) - (p \div 100) + (p \div 400) + DaysBeforeMonth(dt.y, dt.m) + dt.d

\* date.weekday(): Monday is 0, Sunday is 6
weekday(dt) == (toordinal(dt) + 6) % 7

\* date.isoformat()
isoformat(dt) == Pad(dt.y, 4) \o "-" \o Pad(dt.m, 2) \o "-" \o Pad(dt.d, 2)

MonthAbbr == <<"jan", "feb", "mar", "apr", "may", "jun", "jul", "aug", "sep", "oct", "nov", "dec">>

\* The alternatives of a strptime directive's regular expression, in the
\* order the expression tries them; each is a sequence of character classes.
DirectiveAlts(dir) ==
    CASE dir = "d" -> << <<"3", "01">>, <<"12", Digits>>, <<"0", "123456789">>,
                         <<"123456789">>, <<" ", "123456789">> >>
      [] dir = "m" -> << <<"1", "012">>, <<"0", "123456789">>, <<"123456789">> >>
      [] dir = "Y" -> << <<Digits, Digits, Digits, Digits>> >>
      [] dir = "y" -> << <<Digits, Digits>> >>
      [] dir = "H" -> << <<"2", "0123">>, <<"01", Digits>>, <<Digits>> >>
      [] dir = "M" -> << <<"012345", Digits>>, <<Digits>> >>
      [] dir = "S" -> << <<"6", "01">>, <<"012345", Digits>>, <<Digits>> >>
      [] OTHER -> << >>

AltMatches(alt, s, si) ==
    /\ si + Len(alt) - 1 <= Len(s)
    /\ \A j \in 1..Len(alt) : Contains(alt[j], Ch(s, si + j - 1))

\* the field a directive sets, given the text it matched
SetField(acc, dir, text) ==
    LET n == NatOf(DropChars(text, {" "}))
    IN  CASE dir = "d" -> [acc EXCEPT !.d = n]
          [] dir = "m" -> [acc EXCEPT !.m = n]
          [] dir = "Y" -> [acc EXCEPT !.y = n]
          [] dir = "y" -> [acc EXCEPT !.y = IF n <= 68 THEN 2000 + n ELSE 1900 + n]
          [] OTHER -> acc

NoMatch == [ok |-> FALSE, end |-> 0, date |-> NoDate]

\* _strptime's regular expression for fmt from position fi, matched against s
\* from position si, trying the alternatives of the directive at fi from the
\* k-th on: the first match in the expression's order, with its end position.
RECURSIVE strp_match(_, _, _, _, _, _)
strp_match(fmt, fi, s, si, acc, k) ==
    IF fi > Len(fmt) THEN [ok |-> TRUE, end |-> si, date |-> acc]
    ELSE IF Ch(fmt, fi) = "%" /\ Ch(fmt, fi + 1) = "b"
    THEN LET t == Lower(SubSeq(s, si, si + 2))
             hit == {i \in 1..12 : MonthAbbr[i] = t}
         IN  IF hit = {} THEN NoMatch
             ELSE strp_match(fmt, fi + 2, s, si + 3,
                             [acc EXCEPT !.m = CHOOSE i \in hit : TRUE], 1)
    ELSE IF Ch(fmt, fi) = "%"
    THEN LET dir == Ch(fmt, fi + 1)
             alts == DirectiveAlts(dir)
         IN  IF k > Len(alts) THEN NoMatch
             ELSE IF AltMatches(alts[k], s, si)
             THEN LET n == Len(alts[k])
                      r == strp_match(fmt, fi + 2, s, si + n,
                                      SetField(acc, dir, SubSeq(s, si, si + n - 1)), 1)
                  IN  IF r.ok THEN r ELSE strp_match(fmt, fi, s, si, acc, k + 1)
             ELSE strp_match(fmt, fi, s, si, acc, k + 1)
    ELSE IF IsSpace(Ch(fmt, fi))
    THEN LET rest == SubSeq(s, si, Len(s))
             n == Len(rest) - Len(LStrip(rest))
         IN  IF n = 0 THEN NoMatch ELSE strp_match(fmt, fi + 1, s, si + n, acc, 1)
    ELSE IF si <= Len(s) /\ Lower(Ch(s, si)) = Lower(Ch(fmt, fi))
    THEN strp_match(fmt, fi + 1, s, si + 1, acc, 1)
    ELSE NoMatch

\* datetime.strptime(value, fmt).date(), NoDate where it raises ValueError
strptime(value, fmt) ==
    LET date_of(r) ==
            IF r.ok /\ r.end = Len(value) + 1 /\ ValidDate(r.date.y, r.date.m, r.date.d)
            THEN r.date
            ELSE NoDate
    IN  date_of(strp_match(fmt, 1, value, 1, [y |-> 1900, m |-> 1, d |-> 1], 1))

\* HH, HH:MM or HH:MM:SS
IsoClock(t) ==
    /\ Len(t) \in {2, 5, 8}
    /\ \A i \in 1..Len(t) : IF i \in {3, 6} THEN Ch(t, i) = ":" ELSE IsDigit(Ch(t, i))
    /\ NatOf(SubSeq(t, 1, 2)) < 24
    /\ Len(t) >= 5 => NatOf(SubSeq(t, 4, 5)) < 60
    /\ Len(t) = 8 => NatOf(SubSeq(t, 7, 8)) < 60

\* the time part of an ISO string: a clock time, optionally followed by a
\* UTC offset +HH:MM or -HH:MM
IsoTime(t) ==
    LET parts(cut) ==
            IF cut = 0 THEN <<t>>
            ELSE <<SubSeq(t, 1, cut - 1), SubSeq(t, cut + 1, Len(t))>>
        clocks(ps) == /\ \A i \in 1..Len(ps) : IsoClock(ps[i])
                      /\ Len(ps) = 2 => Len(ps[2]) = 5
        signed(plus) == clocks(parts(IF plus > 0 THEN plus ELSE FindFrom(t, "-", 1)))
    IN  signed(FindFrom(t, "+", 1))

\* datetime.fromisoformat(value).date(), NoDate where it raises ValueError:
\* YYYY-MM-DD, alone or followed by one separator character and a time
fromisoformat(value) ==
    LET date_of(y, m, d) == IF ValidDate(y, m, d) THEN [y |-> y, m |-> m, d |-> d] ELSE NoDate
    IN  IF /\ Len(value) >= 10
           /\ \A i \in 1..10 : IF i \in {5, 8} THEN Ch(value, i) = "-"
                                              ELSE IsDigit(Ch(value, i))
           /\ Len(value) > 10 => (Len(value) > 11 /\ IsoTime(SubSeq(value, 12, Len(value))))
        THEN date_of(NatOf(SubSeq(value, 1, 4)), NatOf(SubSeq(value, 6, 7)),
                     NatOf(SubSeq(value, 9, 10)))
        ELSE NoDate

\* the date of the last format of formats, from the k-th on, that parses value
RECURSIVE LastFormat(_, _, _)
LastFormat(value, formats, k) ==
    IF k > Len(formats) THEN NoDate
    ELSE LET or_this(later) == IF later # NoDate THEN later ELSE strptime(value, formats[k])
         IN  or_this(LastFormat(value, formats, k + 1))

\* the date of the first format of formats, from the k-th on, that parses value
RECURSIVE FirstFormat(_, _, _)
FirstFormat(value, formats, k) ==
    IF k > Len(formats) THEN NoDate
    ELSE LET or_next(dt) == IF dt # NoDate THEN dt ELSE FirstFormat(value, formats, k + 1)
         IN  or_next(strptime(value, formats[k]))

parse_date(value, formats) ==
    LET or_iso(v, byFormat) ==
            IF byFormat # NoDate THEN byFormat
            ELSE fromisoformat(Replace(v, "Z", "+00:00"))
        stripped(v) == IF v = "" THEN NoDate ELSE or_iso(v, FirstFormat(v, formats, 1))
    IN  IF value = "" THEN NoDate ELSE stripped(Strip(value))

\* index of the first element of seq equal to x, 0 if none (list.index / in)
IndexOf(seq, x) ==
    LET hits == {i \in 1..Len(seq) : seq[i] = x}
    IN  IF hits = {} THEN 0 ELSE CHOOSE i \in hits : \A j \in hits : i <= j

\* [h.lower().strip() for h in headers]
RECURSIVE headers_lower(_)
headers_lower(headers) ==
    IF headers = <<>> THEN <<>>
    ELSE <<Strip(Lower(headers[1]))>> \o headers_lower(Tail(headers))

\* find_column with the lowered headers given: the column of the first
\* candidate, from the k-th on, that is a header; columns count from 0 as in
\* the source, and NoCol stands for None
NoCol == 0 - 1

RECURSIVE FindCandidate(_, _, _)
FindCandidate(lowered, candidates, k) ==
    IF k > Len(candidates) THEN NoCol
    ELSE IF IndexOf(lowered, Strip(Lower(candidates[k]))) > 0
         THEN IndexOf(lowered, Strip(Lower(candidates[k]))) - 1
         ELSE FindCandidate(lowered, candidates, k + 1)

find_column(headers, candidates) == FindCandidate(headers_lower(headers), candidates, 1)

(***************************************************************************)
(* csv_import.py: deduplication key                                        *)
(***************************************************************************)

\* ' '.join(description.lower().split()) if description else ''
desc_normalized(description) ==
    IF description = "" THEN "" ELSE Join(Words(Lower(description)), " ")

\* the text that is hashed
hash_key(account_id, booking_date, amount, description) ==
    account_id \o "|" \o booking_date \o "|" \o format_2f(amount) \o "|"
        \o desc_normalized(description)

\* The MD5 digests (hex) of the texts that are hashed
Md5Digests ==
    "4bfddaa41fee|2024-12-20|-80.00|old dinner" :> "335a3ca0403dd0ff767e5a213be6aded" @@
    "4bfddaa41fee|2025-01-04|-45.00|" :> "0730e8af73e6aabf75cd95b530224d89" @@
    "4bfddaa41fee|2025-01-04|-45.00|migros zurich" :> "346575e6563b6dc11ad7c60e0cfceaf6" @@
    "4bfddaa41fee|2025-01-04|-45.00|migros zurich ag" :> "1986ff396b8e1c3b4072a882d38d56f1" @@
    "4bfddaa41fee|2025-01-04|-45.01|" :> "4a2a699f89f98b4f539702587fcc31f8" @@
    "4bfddaa41fee|2025-01-04|-45.01|migros zurich" :> "a4aba2176ef4d81a0cd7f3a62cdbc5d2" @@
    "4bfddaa41fee|2025-01-04|-45.01|migros zurich ag" :> "aa3af1aa4aad0c33cc30bc5055b4a09d" @@
    "4bfddaa41fee|2025-01-05|-45.00|" :> "e55fb37e6ca7b1bbdb4225c068b35e7d" @@
    "4bfddaa41fee|2025-01-05|-45.00|migros zurich" :> "007db29d3a07a9ce0e758da07190fa32" @@
    "4bfddaa41fee|2025-01-05|-45.00|migros zurich ag" :> "7ea9730b8ca3b5d4bddb4bd22b526632" @@
    "4bfddaa41fee|2025-01-05|-45.01|" :> "525b57d238375e6b118772e48e412357" @@
    "4bfddaa41fee|2025-01-05|-45.01|migros zurich" :> "702d1273ac1e280ad0e34d29e24ffebb" @@
    "4bfddaa41fee|2025-01-05|-45.01|migros zurich ag" :> "9f070b5253c94a8afc6445b0f6dd52e6" @@
    "4bfddaa41fee|2025-01-06|-3.00|monthly fee" :> "8c64832342ddf03714f2d0c207e55352" @@
    "4bfddaa41fee|2025-01-07|-12.50|" :> "7a317841ff61dac38bac1b75b3bf16ae" @@
    "4bfddaa41fee|2025-01-07|-12.50|bakery" :> "61f5dc7618a0944b77dbae296edacd0a" @@
    "4bfddaa41fee|2025-01-07|-12.50|kiosk" :> "f45427eb2a036991683934d015827fed" @@
    "4bfddaa41fee|2025-01-08|100.00|salary" :> "151d2261c250631c3d2aa781eda5915b" @@
    "4bfddaa41fee|2025-01-08|nan|odd entry" :> "9efc6b94540991abedd444b18bdfae29" @@
    "4bfddaa41fee|2025-01-09|-20.00|kiosk" :> "e0ef4823e174b1b9f46acfe639ba4cd5" @@
    "4bfddaa41fee|2025-01-09|15.00|refund" :> "fecec513d3e677430baad6bd44c80ad5" @@
    "4bfddaa41fee|2025-01-10|-50.00|fee" :> "7d430ffa9faa36563acd06595683197b" @@
    "4bfddaa41fee|2025-01-10|50.00|fee" :> "c9bb91e82cbccc9a86f9a343f4163e6f" @@
    "4bfddaa41fee|2025-01-11|-1234.56|miete januar" :> "c90ccb2bc105743d7f5a2f4e50222f24" @@
    "4bfddaa41fee|2025-01-11|-60.00|trattoria" :> "7276e64304d26b61b5421a5b5e197a2e" @@
    "A|2025-01-04|-45.00|2025-01-04|-45.00|x" :> "2602242c2adbaa7c2e4cd72668f42d83" @@
    "fad58de73664|2024-12-20|-80.00|old dinner" :> "af684aab5643eb57e30d5c3c10d10477" @@
    "fad58de73664|2025-01-04|-45.00|" :> "3e4295a8a02a58e30eaee0bd8023379c" @@
    "fad58de73664|2025-01-04|-45.00|migros zurich" :> "5c03a4023372703f02a320af52dc4379" @@
    "fad58de73664|2025-01-04|-45.00|migros zurich ag" :> "46f0a0a7e5ca59c93f71785de4a84843" @@
    "fad58de73664|2025-01-04|-45.01|" :> "e39696025ac6213f818c14a5c809d796" @@
    "fad58de73664|2025-01-04|-45.01|migros zurich" :> "5e6e04c15a38258cfdd85a8fb94307dd" @@
    "fad58de73664|2025-01-04|-45.01|migros zurich ag" :> "4370c76d13e795544d2655517d3c9387" @@
    "fad58de73664|2025-01-05|-45.00|" :> "8debe8af6877381d25f5052bc6bb8127" @@
    "fad58de73664|2025-01-05|-45.00|migros zurich" :> "38aaf544332053b51112d303fb867276" @@
    "fad58de73664|2025-01-05|-45.00|migros zurich ag" :> "51a701cf2cbf5f2fd0f9d9ace56dc9ee" @@
    "fad58de73664|2025-01-05|-45.01|" :> "01034e781cc3975bf484b8d31078f49f" @@
    "fad58de73664|2025-01-05|-45.01|migros zurich" :> "71822e6a38a063c95d280833578f2473" @@
    "fad58de73664|2025-01-05|-45.01|migros zurich ag" :> "a3305507972d26d680dfbedc7724cd75" @@
    "fad58de73664|2025-01-06|-3.00|monthly fee" :> "b6b5e32bfcff93ff8643f90b42738499" @@
    "fad58de73664|2025-01-07|-12.50|" :> "f4b4fa27d35c092321d5e1ca551bafb8" @@
    "fad58de73664|2025-01-07|-12.50|bakery" :> "e99924048603b0b7fe6f8bbe220754a5" @@
    "fad58de73664|2025-01-07|-12.50|kiosk" :> "285351facc9bbb120797eef8ab84b806" @@
    "fad58de73664|2025-01-08|100.00|salary" :> "a660e0fa2949dc752613fd359befce29" @@
    "fad58de73664|2025-01-08|nan|odd entry" :> "a198b368765269f3396f75340e08e831" @@
    "fad58de73664|2025-01-09|-20.00|kiosk" :> "64341439ff3c8bd94e99c8b799e0f7a0" @@
    "fad58de73664|2025-01-09|15.00|refund" :> "b66d596c8208989c30dd570e609e9429" @@
    "fad58de73664|2025-01-10|-50.00|fee" :> "3b7b3e14f02b918a0eeaa28750a19b5f" @@
    "fad58de73664|2025-01-10|50.00|fee" :> "1d9bbce5231fd68be4847f1a9d12f32c" @@
    "fad58de73664|2025-01-11|-1234.56|miete januar" :> "95dfa75fe9bd1ea8a2dc0fe6732b4a12" @@
    "fad58de73664|2025-01-11|-60.00|trattoria" :> "b251fade010b6e0e2b344a7b370987ff"

\* hashlib.md5(key.encode()).hexdigest(): the digest from the table; a text
\* outside the table stands for its own digest
md5_hexdigest(key) == IF key \in DOMAIN Md5Digests THEN Md5Digests[key] ELSE "?" \o key

create_transaction_hash(account_id, booking_date, amount, description) ==
    md5_hexdigest(hash_key(account_id, booking_date, amount, description))

(***************************************************************************)
(* csv_import.py: the format registry, in the order of the source.  Four   *)
(* Polish letters outside Latin-1 are written without their diacritics.    *)
(***************************************************************************)

BANK_FORMATS == <<
    [key |-> "ubs", name |-> "UBS (Switzerland)",
     date_column |-> <<"Valuta", "Date", "Buchungsdatum", "Valutadatum">>,
     amount_column |-> <<"Betrag", "Amount", "Debit", "Credit", "Belastung", "Gutschrift">>,
     description_column |-> <<"Beschreibung", "Description", "Buchungstext">>,
     date_formats |-> <<"%d.%m.%Y", "%Y-%m-%d", "%d/%m/%Y">>,
     delimiter |-> ";", decimal_separator |-> "."],
    [key |-> "credit_suisse", name |-> "Credit Suisse",
     date_column |-> <<"Valutadatum", "Datum", "Date", "Buchungsdatum">>,
     amount_column |-> <<"Betrag", "Amount", "Belastung", "Gutschrift">>,
     description_column |-> <<"Buchungstext", "Text", "Beschreibung">>,
     date_formats |-> <<"%d.%m.%Y", "%Y-%m-%d">>,
     delimiter |-> ";", decimal_separator |-> "."],
    [key |-> "postfinance", name |-> "PostFinance",
     date_column |-> <<"Datum", "Date", "Buchungsdatum", "Valuta">>,
     amount_column |-> <<"Gutschrift", "Lastschrift", "Betrag", "Credit", "Debit">>,
     description_column |-> <<"Buchungsdetails", "Details", "Beschreibung", "Mitteilungen">>,
     date_formats |-> <<"%d.%m.%Y", "%Y-%m-%d">>,
     delimiter |-> ";", decimal_separator |-> "."],
    [key |-> "raiffeisen_ch", name |-> "Raiffeisen (Switzerland)",
     date_column |-> <<"Datum", "Valuta", "Date", "Buchungsdatum">>,
     amount_column |-> <<"Betrag", "Amount", "Belastung", "Gutschrift">>,
     description_column |-> <<"Text", "Buchungstext", "Beschreibung">>,
     date_formats |-> <<"%d.%m.%Y", "%Y-%m-%d">>,
     delimiter |-> ";", decimal_separator |-> "."],
    [key |-> "zkb", name |-> "Zürcher Kantonalbank (ZKB)",
     date_column |-> <<"Datum", "Valuta", "Buchungsdatum">>,
     amount_column |-> <<"Betrag", "Belastung", "Gutschrift">>,
     description_column |-> <<"Buchungstext", "Text", "Beschreibung">>,
     date_formats |-> <<"%d.%m.%Y">>,
     delimiter |-> ";", decimal_separator |-> "."],
    [key |-> "bcv", name |-> "Banque Cantonale Vaudoise (BCV)",
     date_column |-> <<"Date", "Date valeur", "Datum">>,
     amount_column |-> <<"Montant", "Débit", "Crédit", "Betrag">>,
     description_column |-> <<"Libellé", "Description", "Beschreibung">>,
     date_formats |-> <<"%d.%m.%Y", "%d/%m/%Y">>,
     delimiter |-> ";", decimal_separator |-> "."],
    [key |-> "bcge", name |-> "Banque Cantonale de Genève (BCGE)",
     date_column |-> <<"Date", "Date valeur">>,
     amount_column |-> <<"Montant", "Débit", "Crédit">>,
     description_column |-> <<"Libellé", "Description">>,
     date_formats |-> <<"%d.%m.%Y", "%d/%m/%Y">>,
     delimiter |-> ";", decimal_separator |-> "."],
    [key |-> "migros_bank", name |-> "Migros Bank",
     date_column |-> <<"Datum", "Valuta", "Buchungsdatum">>,
     amount_column |-> <<"Betrag", "Belastung", "Gutschrift">>,
     description_column |-> <<"Buchungstext", "Text">>,
     date_formats |-> <<"%d.%m.%Y">>,
     delimiter |-> ";", decimal_separator |-> "."],
    [key |-> "cler", name |-> "Bank Cler",
     date_column |-> <<"Datum", "Valuta">>,
     amount_column |-> <<"Betrag", "Belastung", "Gutschrift">>,
     description_column |-> <<"Buchungstext", "Text">>,
     date_formats |-> <<"%d.%m.%Y">>,
     delimiter |-> ";", decimal_separator |-> "."],
    [key |-> "deutsche_bank", name |-> "Deutsche Bank",
     date_column |-> <<"Buchungstag", "Wertstellung", "Booking date", "Buchungsdatum">>,
     amount_column |-> <<"Betrag (EUR)", "Betrag", "Amount", "Umsatz">>,
     description_column |-> <<"Verwendungszweck", "Purpose", "Buchungstext">>,
     date_formats |-> <<"%d.%m.%Y", "%d.%m.%y">>,
     delimiter |-> ";", decimal_separator |-> ","],
    [key |-> "sparkasse", name |-> "Sparkasse",
     date_column |-> <<"Buchungstag", "Valutadatum", "Buchungsdatum">>,
     amount_column |-> <<"Betrag", "Umsatz", "Betrag (EUR)">>,
     description_column |-> <<"Verwendungszweck", "Buchungstext", "Kundenreferenz">>,
     date_formats |-> <<"%d.%m.%y", "%d.%m.%Y">>,
     delimiter |-> ";", decimal_separator |-> ","],
    [key |-> "commerzbank", name |-> "Commerzbank",
     date_column |-> <<"Buchungstag", "Wertstellung", "Buchungsdatum">>,
     amount_column |-> <<"Betrag", "Umsatz", "Betrag (EUR)">>,
     description_column |-> <<"Buchungstext", "Vorgang", "Verwendungszweck">>,
     date_formats |-> <<"%d.%m.%Y">>,
     delimiter |-> ";", decimal_separator |-> ","],
    [key |-> "ing_diba", name |-> "ING (Germany)",
     date_column |-> <<"Buchung", "Valuta", "Buchungsdatum">>,
     amount_column |-> <<"Betrag", "Saldo", "Betrag (EUR)">>,
     description_column |-> <<"Verwendungszweck", "Auftraggeber/Empfänger", "Buchungstext">>,
     date_formats |-> <<"%d.%m.%Y">>,
     delimiter |-> ";", decimal_separator |-> ","],
    [key |-> "dkb", name |-> "DKB (Deutsche Kreditbank)",
     date_column |-> <<"Buchungstag", "Wertstellung", "Belegdatum">>,
     amount_column |-> <<"Betrag (EUR)", "Betrag", "Umsatz">>,
     description_column |-> <<"Verwendungszweck", "Auftraggeber / Begünstigter">>,
     date_formats |-> <<"%d.%m.%Y", "%d.%m.%y">>,
     delimiter |-> ";", decimal_separator |-> ","],
    [key |-> "n26_de", name |-> "N26 (Germany)",
     date_column |-> <<"Date", "Datum", "Booking Date">>,
     amount_column |-> <<"Amount (EUR)", "Betrag", "Amount">>,
     description_column |-> <<"Payee", "Empfänger", "Reference", "Verwendungszweck">>,
     date_formats |-> <<"%Y-%m-%d", "%d.%m.%Y">>,
     delimiter |-> ",", decimal_separator |-> "."],
    [key |-> "comdirect", name |-> "comdirect",
     date_column |-> <<"Buchungstag", "Valuta", "Wertstellung">>,
     amount_column |-> <<"Umsatz", "Betrag", "Betrag in EUR">>,
     description_column |-> <<"Vorgang", "Buchungstext", "Verwendungszweck">>,
     date_formats |-> <<"%d.%m.%Y">>,
     delimiter |-> ";", decimal_separator |-> ","],
    [key |-> "hypovereinsbank", name |-> "HypoVereinsbank (UniCredit)",
     date_column |-> <<"Buchungsdatum", "Valuta", "Wertstellung">>,
     amount_column |-> <<"Betrag", "Umsatz">>,
     description_column |-> <<"Verwendungszweck", "Buchungstext">>,
     date_formats |-> <<"%d.%m.%Y">>,
     delimiter |-> ";", decimal_separator |-> ","],
    [key |-> "postbank_de", name |-> "Postbank (Germany)",
     date_column |-> <<"Buchungsdatum", "Wertstellung">>,
     amount_column |-> <<"Betrag", "Umsatz">>,
     description_column |-> <<"Verwendungszweck", "Empfänger/Auftraggeber">>,
     date_formats |-> <<"%d.%m.%Y">>,
     delimiter |-> ";", decimal_separator |-> ","],
    [key |-> "volksbank", name |-> "Volksbank / Raiffeisenbank (Germany)",
     date_column |-> <<"Buchungstag", "Valuta">>,
     amount_column |-> <<"Betrag", "Umsatz">>,
     description_column |-> <<"Vorgang/Verwendungszweck", "Empfänger/Zahlungspflichtiger">>,
     date_formats |-> <<"%d.%m.%Y">>,
     delimiter |-> ";", decimal_separator |-> ","],
    [key |-> "targobank", name |-> "Targobank",
     date_column |-> <<"Buchungstag", "Valuta">>,
     amount_column |-> <<"Betrag", "Umsatz">>,
     description_column |-> <<"Verwendungszweck", "Buchungstext">>,
     date_formats |-> <<"%d.%m.%Y">>,
     delimiter |-> ";", decimal_separator |-> ","],
    [key |-> "bnp_paribas", name |-> "BNP Paribas",
     date_column |-> <<"Date", "Date opération", "Date de valeur", "Date comptable">>,
     amount_column |-> <<"Montant", "Débit", "Crédit", "Montant (EUR)">>,
     description_column |-> <<"Libellé", "Description", "Libellé opération">>,
     date_formats |-> <<"%d/%m/%Y", "%d/%m/%y", "%d-%m-%Y">>,
     delimiter |-> ";", decimal_separator |-> ","],
    [key |-> "societe_generale", name |-> "Société Générale",
     date_column |-> <<"Date", "Date opération", "Date valeur">>,
     amount_column |-> <<"Montant", "Débit", "Crédit">>,
     description_column |-> <<"Libellé", "Détail", "Description">>,
     date_formats |-> <<"%d/%m/%Y">>,
     delimiter |-> ";", decimal_separator |-> ","],
    [key |-> "credit_agricole", name |-> "Crédit Agricole",
     date_column |-> <<"Date", "Date opération", "Date valeur", "Date comptable">>,
     amount_column |-> <<"Montant", "Débit", "Crédit", "Montant en euros">>,
     description_column |-> <<"Libellé", "Nature", "Libellé simplifié">>,
     date_formats |-> <<"%d/%m/%Y", "%d/%m/%y">>,
     delimiter |-> ";", decimal_separator |-> ","],
    [key |-> "credit_mutuel", name |-> "Crédit Mutuel",
     date_column |-> <<"Date", "Date opération", "Date valeur">>,
     amount_column |-> <<"Montant", "Débit", "Crédit">>,
     description_column |-> <<"Libellé", "Description">>,
     date_formats |-> <<"%d/%m/%Y">>,
     delimiter |-> ";", decimal_separator |-> ","],
    [key |-> "la_banque_postale", name |-> "La Banque Postale",
     date_column |-> <<"Date", "Date opération", "Date valeur">>,
     amount_column |-> <<"Montant", "Débit", "Crédit">>,
     description_column |-> <<"Libellé", "Description">>,
     date_formats |-> <<"%d/%m/%Y">>,
     delimiter |-> ";", decimal_separator |-> ","],
    [key |-> "lcl", name |-> "LCL (Le Crédit Lyonnais)",
     date_column |-> <<"Date", "Date opération", "Date valeur">>,
     amount_column |-> <<"Montant", "Débit", "Crédit">>,
     description_column |-> <<"Libellé", "Description">>,
     date_formats |-> <<"%d/%m/%Y">>,
     delimiter |-> ";", decimal_separator |-> ","],
    [key |-> "boursorama", name |-> "Boursorama Banque",
     date_column |-> <<"dateOp", "dateVal", "Date opération", "Date valeur">>,
     amount_column |-> <<"amount", "Montant", "Débit", "Crédit">>,
     description_column |-> <<"label", "Libellé", "Description">>,
     date_formats |-> <<"%Y-%m-%d", "%d/%m/%Y">>,
     delimiter |-> ";", decimal_separator |-> ","],
    [key |-> "fortuneo", name |-> "Fortuneo",
     date_column |-> <<"Date opération", "Date valeur">>,
     amount_column |-> <<"Montant", "Débit", "Crédit">>,
     description_column |-> <<"Libellé", "Description">>,
     date_formats |-> <<"%d/%m/%Y">>,
     delimiter |-> ";", decimal_separator |-> ","],
    [key |-> "caisse_epargne", name |-> "Caisse d'Épargne",
     date_column |-> <<"Date", "Date opération", "Date comptable">>,
     amount_column |-> <<"Montant", "Débit", "Crédit">>,
     description_column |-> <<"Libellé", "Nature opération">>,
     date_formats |-> <<"%d/%m/%Y">>,
     delimiter |-> ";", decimal_separator |-> ","],
    [key |-> "barclays", name |-> "Barclays",
     date_column |-> <<"Date", "Transaction Date", "Booking Date">>,
     amount_column |-> <<"Amount", "Money In", "Money Out", "Value">>,
     description_column |-> <<"Description", "Memo", "Reference", "Narrative">>,
     date_formats |-> <<"%d/%m/%Y", "%d-%m-%Y", "%Y-%m-%d", "%d %b %Y">>,
     delimiter |-> ",", decimal_separator |-> "."],
    [key |-> "hsbc", name |-> "HSBC",
     date_column |-> <<"Date", "Transaction Date", "Value Date">>,
     amount_column |-> <<"Amount", "Paid In", "Paid Out", "Credit", "Debit">>,
     description_column |-> <<"Description", "Transaction Description", "Narrative">>,
     date_formats |-> <<"%d/%m/%Y", "%d %b %Y", "%d-%m-%Y">>,
     delimiter |-> ",", decimal_separator |-> "."],
    [key |-> "lloyds", name |-> "Lloyds Bank",
     date_column |-> <<"Transaction Date", "Date", "Value Date">>,
     amount_column |-> <<"Debit Amount", "Credit Amount", "Amount", "Value">>,
     description_column |-> <<"Transaction Description", "Description", "Narrative">>,
     date_formats |-> <<"%d/%m/%Y", "%d %b %Y">>,
     delimiter |-> ",", decimal_separator |-> "."],
    [key |-> "natwest", name |-> "NatWest",
     date_column |-> <<"Date", "Transaction Date", "Value Date">>,
     amount_column |-> <<"Value", "Amount", "Debit", "Credit">>,
     description_column |-> <<"Description", "Narrative", "Type">>,
     date_formats |-> <<"%d/%m/%Y", "%d %b %Y">>,
     delimiter |-> ",", decimal_separator |-> "."],
    [key |-> "rbs", name |-> "Royal Bank of Scotland",
     date_column |-> <<"Date", "Transaction Date">>,
     amount_column |-> <<"Value", "Amount", "Debit", "Credit">>,
     description_column |-> <<"Description", "Narrative">>,
     date_formats |-> <<"%d/%m/%Y", "%d %b %Y">>,
     delimiter |-> ",", decimal_separator |-> "."],
    [key |-> "santander_uk", name |-> "Santander UK",
     date_column |-> <<"Date", "Transaction Date">>,
     amount_column |-> <<"Amount", "Money In", "Money Out">>,
     description_column |-> <<"Description", "Narrative">>,
     date_formats |-> <<"%d/%m/%Y">>,
     delimiter |-> ",", decimal_separator |-> "."],
    [key |-> "halifax", name |-> "Halifax",
     date_column |-> <<"Transaction Date", "Date">>,
     amount_column |-> <<"Debit Amount", "Credit Amount", "Amount">>,
     description_column |-> <<"Transaction Description", "Description">>,
     date_formats |-> <<"%d/%m/%Y">>,
     delimiter |-> ",", decimal_separator |-> "."],
    [key |-> "monzo", name |-> "Monzo",
     date_column |-> <<"Date", "Created">>,
     amount_column |-> <<"Amount", "Money In", "Money Out">>,
     description_column |-> <<"Description", "Name", "Notes">>,
     date_formats |-> <<"%d/%m/%Y", "%Y-%m-%d">>,
     delimiter |-> ",", decimal_separator |-> "."],
    [key |-> "starling", name |-> "Starling Bank",
     date_column |-> <<"Date", "Transaction Date">>,
     amount_column |-> <<"Amount", "Amount (GBP)">>,
     description_column |-> <<"Reference", "Counter Party", "Description">>,
     date_formats |-> <<"%d/%m/%Y", "%Y-%m-%d">>,
     delimiter |-> ",", decimal_separator |-> "."],
    [key |-> "revolut_uk", name |-> "Revolut (UK)",
     date_column |-> <<"Started Date", "Completed Date", "Date">>,
     amount_column |-> <<"Amount", "Fee", "Balance">>,
     description_column |-> <<"Description", "Reference">>,
     date_formats |-> <<"%Y-%m-%d %H:%M:%S", "%d %b %Y", "%Y-%m-%d">>,
     delimiter |-> ",", decimal_separator |-> "."],
    [key |-> "nationwide", name |-> "Nationwide",
     date_column |-> <<"Date", "Transaction date">>,
     amount_column |-> <<"Paid in", "Paid out", "Amount">>,
     description_column |-> <<"Description", "Transactions">>,
     date_formats |-> <<"%d %b %Y", "%d/%m/%Y">>,
     delimiter |-> ",", decimal_separator |-> "."],
    [key |-> "ing_nl", name |-> "ING (Netherlands)",
     date_column |-> <<"Datum", "Date", "Boekingsdatum">>,
     amount_column |-> <<"Bedrag (EUR)", "Af Bij", "Amount", "Bedrag">>,
     description_column |-> <<"Naam / Omschrijving", "Mededelingen", "Omschrijving">>,
     date_formats |-> <<"%Y%m%d", "%d-%m-%Y", "%Y-%m-%d">>,
     delimiter |-> ";", decimal_separator |-> ","],
    [key |-> "rabobank", name |-> "Rabobank",
     date_column |-> <<"Datum", "Rentedatum", "Boekingsdatum">>,
     amount_column |-> <<"Bedrag", "Amount", "Af", "Bij">>,
     description_column |-> <<"Omschrijving-1", "Naam tegenpartij", "Omschrijving">>,
     date_formats |-> <<"%Y-%m-%d", "%d-%m-%Y">>,
     delimiter |-> ",", decimal_separator |-> "."],
    [key |-> "abn_amro", name |-> "ABN AMRO",
     date_column |-> <<"Transactiedatum", "Boekdatum", "Datum">>,
     amount_column |-> <<"Transactiebedrag", "Bedrag", "Af", "Bij">>,
     description_column |-> <<"Omschrijving", "Tegenrekening", "Naam">>,
     date_formats |-> <<"%Y%m%d", "%d-%m-%Y">>,
     delimiter |-> "\t", decimal_separator |-> ","],
    [key |-> "sns_bank", name |-> "SNS Bank",
     date_column |-> <<"Datum", "Boekingsdatum">>,
     amount_column |-> <<"Bedrag", "Af", "Bij">>,
     description_column |-> <<"Omschrijving", "Naam">>,
     date_formats |-> <<"%d-%m-%Y">>,
     delimiter |-> ";", decimal_separator |-> ","],
    [key |-> "triodos_nl", name |-> "Triodos Bank (Netherlands)",
     date_column |-> <<"Datum", "Boekingsdatum">>,
     amount_column |-> <<"Bedrag", "Af", "Bij">>,
     description_column |-> <<"Omschrijving", "Naam tegenrekening">>,
     date_formats |-> <<"%d-%m-%Y">>,
     delimiter |-> ";", decimal_separator |-> ","],
    [key |-> "bunq", name |-> "bunq",
     date_column |-> <<"Date", "Datum">>,
     amount_column |-> <<"Amount", "Bedrag">>,
     description_column |-> <<"Description", "Omschrijving", "Name">>,
     date_formats |-> <<"%Y-%m-%d", "%d-%m-%Y">>,
     delimiter |-> ",", decimal_separator |-> "."],
    [key |-> "kbc", name |-> "KBC Bank",
     date_column |-> <<"Datum", "Date", "Boekingsdatum">>,
     amount_column |-> <<"Bedrag", "Montant", "Credit", "Debet">>,
     description_column |-> <<"Omschrijving", "Description", "Mededeling">>,
     date_formats |-> <<"%d/%m/%Y", "%d-%m-%Y">>,
     delimiter |-> ";", decimal_separator |-> ","],
    [key |-> "belfius", name |-> "Belfius",
     date_column |-> <<"Datum", "Date", "Boekingsdatum">>,
     amount_column |-> <<"Bedrag", "Montant", "Amount">>,
     description_column |-> <<"Omschrijving", "Description", "Mededeling">>,
     date_formats |-> <<"%d/%m/%Y">>,
     delimiter |-> ";", decimal_separator |-> ","],
    [key |-> "ing_be", name |-> "ING (Belgium)",
     date_column |-> <<"Date", "Datum", "Date comptable">>,
     amount_column |-> <<"Montant", "Bedrag", "Amount">>,
     description_column |-> <<"Description", "Omschrijving", "Communication">>,
     date_formats |-> <<"%d/%m/%Y">>,
     delimiter |-> ";", decimal_separator |-> ","],
    [key |-> "bnp_fortis", name |-> "BNP Paribas Fortis",
     date_column |-> <<"Date", "Datum", "Date de valeur">>,
     amount_column |-> <<"Montant", "Bedrag", "Crédit", "Débit">>,
     description_column |-> <<"Communication", "Mededeling", "Description">>,
     date_formats |-> <<"%d/%m/%Y">>,
     delimiter |-> ";", decimal_separator |-> ","],
    [key |-> "argenta", name |-> "Argenta",
     date_column |-> <<"Datum", "Date">>,
     amount_column |-> <<"Bedrag", "Montant">>,
     description_column |-> <<"Omschrijving", "Description">>,
     date_formats |-> <<"%d/%m/%Y">>,
     delimiter |-> ";", decimal_separator |-> ","],
    [key |-> "erste_bank", name |-> "Erste Bank",
     date_column |-> <<"Buchungsdatum", "Valuta", "Datum">>,
     amount_column |-> <<"Betrag", "Umsatz", "Haben", "Soll">>,
     description_column |-> <<"Buchungstext", "Verwendungszweck", "Text">>,
     date_formats |-> <<"%d.%m.%Y">>,
     delimiter |-> ";", decimal_separator |-> ","],
    [key |-> "raiffeisen_at", name |-> "Raiffeisen (Austria)",
     date_column |-> <<"Buchungsdatum", "Valutadatum", "Datum">>,
     amount_column |-> <<"Betrag", "Umsatz">>,
     description_column |-> <<"Buchungstext", "Verwendungszweck">>,
     date_formats |-> <<"%d.%m.%Y">>,
     delimiter |-> ";", decimal_separator |-> ","],
    [key |-> "bank_austria", name |-> "Bank Austria (UniCredit)",
     date_column |-> <<"Buchungsdatum", "Valuta">>,
     amount_column |-> <<"Betrag", "Umsatz">>,
     description_column |-> <<"Buchungstext", "Verwendungszweck">>,
     date_formats |-> <<"%d.%m.%Y">>,
     delimiter |-> ";", decimal_separator |-> ","],
    [key |-> "bawag", name |-> "BAWAG PSK",
     date_column |-> <<"Buchungsdatum", "Valuta">>,
     amount_column |-> <<"Betrag", "Umsatz">>,
     description_column |-> <<"Buchungstext", "Verwendungszweck">>,
     date_formats |-> <<"%d.%m.%Y">>,
     delimiter |-> ";", decimal_separator |-> ","],
    [key |-> "santander_es", name |-> "Santander (Spain)",
     date_column |-> <<"Fecha", "F. Valor", "Fecha operación">>,
     amount_column |-> <<"Importe", "Importe (EUR)", "Cargo", "Abono">>,
     description_column |-> <<"Concepto", "Descripción", "Observaciones">>,
     date_formats |-> <<"%d/%m/%Y", "%d-%m-%Y">>,
     delimiter |-> ";", decimal_separator |-> ","],
    [key |-> "bbva", name |-> "BBVA",
     date_column |-> <<"Fecha", "F. Valor", "Fecha operación">>,
     amount_column |-> <<"Importe", "Cargo", "Abono">>,
     description_column |-> <<"Concepto", "Descripción">>,
     date_formats |-> <<"%d/%m/%Y">>,
     delimiter |-> ";", decimal_separator |-> ","],
    [key |-> "caixabank", name |-> "CaixaBank",
     date_column |-> <<"Fecha", "F. Valor">>,
     amount_column |-> <<"Importe", "Cargo", "Abono">>,
     description_column |-> <<"Concepto", "Descripción">>,
     date_formats |-> <<"%d/%m/%Y">>,
     delimiter |-> ";", decimal_separator |-> ","],
    [key |-> "sabadell", name |-> "Banco Sabadell",
     date_column |-> <<"Fecha", "F. Valor">>,
     amount_column |-> <<"Importe", "Cargo", "Abono">>,
     description_column |-> <<"Concepto", "Descripción">>,
     date_formats |-> <<"%d/%m/%Y">>,
     delimiter |-> ";", decimal_separator |-> ","],
    [key |-> "intesa_sanpaolo", name |-> "Intesa Sanpaolo",
     date_column |-> <<"Data", "Data Contabile", "Data Valuta">>,
     amount_column |-> <<"Importo", "Dare", "Avere">>,
     description_column |-> <<"Descrizione", "Causale">>,
     date_formats |-> <<"%d/%m/%Y">>,
     delimiter |-> ";", decimal_separator |-> ","],
    [key |-> "unicredit_it", name |-> "UniCredit (Italy)",
     date_column |-> <<"Data", "Data Contabile", "Data Valuta">>,
     amount_column |-> <<"Importo", "Dare", "Avere">>,
     description_column |-> <<"Descrizione", "Causale">>,
     date_formats |-> <<"%d/%m/%Y">>,
     delimiter |-> ";", decimal_separator |-> ","],
    [key |-> "bnl", name |-> "BNL (Banca Nazionale del Lavoro)",
     date_column |-> <<"Data", "Data operazione", "Data valuta">>,
     amount_column |-> <<"Importo", "Dare", "Avere">>,
     description_column |-> <<"Descrizione", "Causale">>,
     date_formats |-> <<"%d/%m/%Y">>,
     delimiter |-> ";", decimal_separator |-> ","],
    [key |-> "fineco", name |-> "FinecoBank",
     date_column |-> <<"Data", "Data Contabile">>,
     amount_column |-> <<"Entrate", "Uscite", "Importo">>,
     description_column |-> <<"Descrizione", "Descrizione operazione">>,
     date_formats |-> <<"%d/%m/%Y">>,
     delimiter |-> ";", decimal_separator |-> ","],
    [key |-> "cgd", name |-> "Caixa Geral de Depósitos",
     date_column |-> <<"Data", "Data Mov.", "Data Valor">>,
     amount_column |-> <<"Montante", "Valor", "Débito", "Crédito">>,
     description_column |-> <<"Descrição", "Descritivo">>,
     date_formats |-> <<"%d-%m-%Y", "%d/%m/%Y">>,
     delimiter |-> ";", decimal_separator |-> ","],
    [key |-> "millennium_bcp", name |-> "Millennium BCP",
     date_column |-> <<"Data", "Data Mov.", "Data Valor">>,
     amount_column |-> <<"Montante", "Valor", "Débito", "Crédito">>,
     description_column |-> <<"Descrição", "Descritivo">>,
     date_formats |-> <<"%d-%m-%Y", "%d/%m/%Y">>,
     delimiter |-> ";", decimal_separator |-> ","],
    [key |-> "novo_banco", name |-> "Novo Banco",
     date_column |-> <<"Data", "Data Mov.">>,
     amount_column |-> <<"Montante", "Valor">>,
     description_column |-> <<"Descrição", "Descritivo">>,
     date_formats |-> <<"%d-%m-%Y">>,
     delimiter |-> ";", decimal_separator |-> ","],
    [key |-> "aib", name |-> "AIB (Allied Irish Banks)",
     date_column |-> <<"Date", "Posted Date", "Value Date">>,
     amount_column |-> <<"Debit", "Credit", "Amount">>,
     description_column |-> <<"Description", "Narrative">>,
     date_formats |-> <<"%d/%m/%Y", "%d %b %Y">>,
     delimiter |-> ",", decimal_separator |-> "."],
    [key |-> "bank_of_ireland", name |-> "Bank of Ireland",
     date_column |-> <<"Date", "Transaction Date">>,
     amount_column |-> <<"Debit", "Credit", "Amount">>,
     description_column |-> <<"Description", "Details">>,
     date_formats |-> <<"%d/%m/%Y">>,
     delimiter |-> ",", decimal_separator |-> "."],
    [key |-> "ptsb", name |-> "Permanent TSB",
     date_column |-> <<"Date", "Transaction Date">>,
     amount_column |-> <<"Debit", "Credit", "Amount">>,
     description_column |-> <<"Description", "Narrative">>,
     date_formats |-> <<"%d/%m/%Y">>,
     delimiter |-> ",", decimal_separator |-> "."],
    [key |-> "nordea", name |-> "Nordea",
     date_column |-> <<"Kirjauspäivä", "Arvopäivä", "Booking date", "Date">>,
     amount_column |-> <<"Määrä", "Amount", "Summa">>,
     description_column |-> <<"Saaja/Maksaja", "Viesti", "Message", "Description">>,
     date_formats |-> <<"%d.%m.%Y", "%Y-%m-%d">>,
     delimiter |-> ";", decimal_separator |-> ","],
    [key |-> "op_bank", name |-> "OP Bank (Finland)",
     date_column |-> <<"Kirjauspäivä", "Arvopäivä">>,
     amount_column |-> <<"Määrä", "Summa">>,
     description_column |-> <<"Selite", "Saaja/Maksaja">>,
     date_formats |-> <<"%d.%m.%Y">>,
     delimiter |-> ";", decimal_separator |-> ","],
    [key |-> "danske_bank", name |-> "Danske Bank",
     date_column |-> <<"Dato", "Bogføringsdato", "Date">>,
     amount_column |-> <<"Beløb", "Amount">>,
     description_column |-> <<"Tekst", "Description">>,
     date_formats |-> <<"%d.%m.%Y", "%d-%m-%Y">>,
     delimiter |-> ";", decimal_separator |-> ","],
    [key |-> "seb", name |-> "SEB (Sweden)",
     date_column |-> <<"Bokföringsdatum", "Transaktionsdatum", "Date">>,
     amount_column |-> <<"Belopp", "Amount">>,
     description_column |-> <<"Text", "Beskrivning", "Description">>,
     date_formats |-> <<"%Y-%m-%d", "%d.%m.%Y">>,
     delimiter |-> ";", decimal_separator |-> ","],
    [key |-> "swedbank", name |-> "Swedbank",
     date_column |-> <<"Bokföringsdatum", "Transaktionsdatum">>,
     amount_column |-> <<"Belopp", "Summa">>,
     description_column |-> <<"Beskrivning", "Text">>,
     date_formats |-> <<"%Y-%m-%d">>,
     delimiter |-> ";", decimal_separator |-> ","],
    [key |-> "handelsbanken", name |-> "Handelsbanken",
     date_column |-> <<"Datum", "Bokföringsdatum">>,
     amount_column |-> <<"Belopp", "Summa">>,
     description_column |-> <<"Text", "Beskrivning">>,
     date_formats |-> <<"%Y-%m-%d">>,
     delimiter |-> ";", decimal_separator |-> ","],
    [key |-> "dnb", name |-> "DNB (Norway)",
     date_column |-> <<"Dato", "Bokføringsdato">>,
     amount_column |-> <<"Beløp", "Inn", "Ut">>,
     description_column |-> <<"Forklaring", "Beskrivelse">>,
     date_formats |-> <<"%d.%m.%Y">>,
     delimiter |-> ";", decimal_separator |-> ","],
    [key |-> "pko_bp", name |-> "PKO Bank Polski",
     date_column |-> <<"Data operacji", "Data ksiegowania", "Data">>,
     amount_column |-> <<"Kwota", "Kwota operacji">>,
     description_column |-> <<"Opis operacji", "Tytul">>,
     date_formats |-> <<"%Y-%m-%d", "%d.%m.%Y">>,
     delimiter |-> ";", decimal_separator |-> ","],
    [key |-> "mbank", name |-> "mBank",
     date_column |-> <<"Data operacji", "Data ksiegowania">>,
     amount_column |-> <<"Kwota", "Kwota operacji">>,
     description_column |-> <<"Opis", "Tytul">>,
     date_formats |-> <<"%Y-%m-%d">>,
     delimiter |-> ";", decimal_separator |-> ","],
    [key |-> "ing_pl", name |-> "ING Bank Slaski",
     date_column |-> <<"Data transakcji", "Data ksiegowania">>,
     amount_column |-> <<"Kwota", "Kwota transakcji">>,
     description_column |-> <<"Opis", "Tytul">>,
     date_formats |-> <<"%Y-%m-%d", "%d.%m.%Y">>,
     delimiter |-> ";", decimal_separator |-> ","],
    [key |-> "revolut", name |-> "Revolut",
     date_column |-> <<"Started Date", "Completed Date", "Date">>,
     amount_column |-> <<"Amount", "Fee", "Balance">>,
     description_column |-> <<"Description", "Reference", "Type">>,
     date_formats |-> <<"%Y-%m-%d %H:%M:%S", "%d %b %Y", "%Y-%m-%d">>,
     delimiter |-> ",", decimal_separator |-> "."],
    [key |-> "n26", name |-> "N26",
     date_column |-> <<"Date", "Booking Date">>,
     amount_column |-> <<"Amount (EUR)", "Amount", "Original Amount">>,
     description_column |-> <<"Payee", "Reference", "Payment Reference">>,
     date_formats |-> <<"%Y-%m-%d", "%d.%m.%Y">>,
     delimiter |-> ",", decimal_separator |-> "."],
    [key |-> "wise", name |-> "Wise (TransferWise)",
     date_column |-> <<"Date", "Created on">>,
     amount_column |-> <<"Amount", "Target amount", "Source amount">>,
     description_column |-> <<"Description", "Reference", "Recipient">>,
     date_formats |-> <<"%Y-%m-%d", "%d-%m-%Y">>,
     delimiter |-> ",", decimal_separator |-> "."],
    [key |-> "vivid", name |-> "Vivid Money",
     date_column |-> <<"Date", "Transaction date">>,
     amount_column |-> <<"Amount", "Transaction amount">>,
     description_column |-> <<"Description", "Merchant">>,
     date_formats |-> <<"%Y-%m-%d", "%d.%m.%Y">>,
     delimiter |-> ",", decimal_separator |-> "."],
    [key |-> "tomorrow", name |-> "Tomorrow Bank",
     date_column |-> <<"Date", "Booking date">>,
     amount_column |-> <<"Amount", "Betrag">>,
     description_column |-> <<"Description", "Verwendungszweck">>,
     date_formats |-> <<"%Y-%m-%d", "%d.%m.%Y">>,
     delimiter |-> ",", decimal_separator |-> "."],
    [key |-> "generic", name |-> "Generic CSV",
     date_column |-> <<"Date", "Datum", "date", "Transaction Date", "Booking Date", "Fecha",
            "Data", "Dato", "Päivämäärä">>,
     amount_column |-> <<"Amount", "Betrag", "amount", "Montant", "Value", "Importe",
            "Importo", "Beløb", "Kwota", "Summa">>,
     description_column |-> <<"Description", "Beschreibung", "description", "Text", "Memo",
            "Libellé", "Concepto", "Descrizione", "Omschrijving">>,
     date_formats |-> <<"%Y-%m-%d", "%d/%m/%Y", "%d.%m.%Y", "%m/%d/%Y", "%d-%m-%Y", "%Y%m%d", "%d %b %Y">>,
     delimiter |-> ",", decimal_separator |-> "."]
>>

FormatKeys ==
    LET keys(formats) == {formats[i].key : i \in 1..Len(formats)}
    IN  keys(BANK_FORMATS)

\* BANK_FORMATS[key]
FormatOf(key) ==
    LET at(formats) == formats[CHOOSE i \in 1..Len(formats) : formats[i].key = key]
    IN  at(BANK_FORMATS)

(***************************************************************************)
(* csv_import.py: format detection.  A file is the sequence of its lines.  *)
(***************************************************************************)

\* the first format, in registry order, that the file name names
FilenameMatches(filename) ==
    LET named(formats, filename_lower) ==
            {i \in 1..Len(formats) :
                \/ Contains(filename_lower, formats[i].key)
                \/ Contains(filename_lower, Lower(formats[i].name))}
    IN  named(BANK_FORMATS, Lower(filename))

\* whether some candidate of the list is among the lowered headers
AnyCandidate(lowered, candidates) ==
    \E k \in 1..Len(candidates) : IndexOf(lowered, Lower(candidates[k])) > 0

\* the score of one format for the headers read with one delimiter
format_score(config, lowered, delimiter) ==
    (IF AnyCandidate(lowered, config.date_column) THEN 10 ELSE 0)
    + (IF AnyCandidate(lowered, config.amount_column) THEN 10 ELSE 0)
    + (IF AnyCandidate(lowered, config.description_column) THEN 5 ELSE 0)
    + (IF config.delimiter = delimiter THEN 5 ELSE 0)

ScoreThreshold == 15

\* best_match after the scoring loop for one delimiter: the first format in
\* registry order with the highest score, 0 (generic) when every score is 0
best_match(lowered, delimiter) ==
    LET scores(formats) ==
            [i \in 1..Len(formats) |->
                IF formats[i].key = "generic" THEN 0
                ELSE format_score(formats[i], lowered, delimiter)]
        at(sc, b) == [index |-> b, score |-> sc[b]]
        first_of(sc, top) ==
            IF top = {} THEN [index |-> 0, score |-> 0]
            ELSE at(sc, CHOOSE i \in top : \A j \in top : i <= j)
        highest(sc) ==
            first_of(sc, {i \in DOMAIN sc : sc[i] > 0 /\ \A j \in DOMAIN sc : sc[j] <= sc[i]})
    IN  highest(scores(BANK_FORMATS))

DetectDelimiters == <<",", ";", "\t">>

\* the delimiter loop with a best match accepted at the threshold itself
RECURSIVE detect_by_content_at_threshold(_, _)
detect_by_content_at_threshold(csv_content, k) ==
    IF k > Len(DetectDelimiters) THEN 0
    ELSE LET decided(best) ==
                 IF best.score >= ScoreThreshold THEN best.index
                 ELSE detect_by_content_at_threshold(csv_content, k + 1)
             scored(headers) ==
                 decided(IF Len(headers) < 2 THEN [index |-> 0, score |-> 0]
                         ELSE best_match(headers_lower(headers), DetectDelimiters[k]))
         IN  scored(IF csv_content = <<>> THEN <<>>
                    ELSE csv_row(csv_content[1], DetectDelimiters[k]))

\* the loop over the delimiters from the k-th on: the first delimiter whose
\* best match passes the threshold decides
RECURSIVE detect_by_content(_, _)
detect_by_content(csv_content, k) ==
    IF k > Len(DetectDelimiters) THEN 0
    ELSE LET decided(best) ==
                 IF best.score > ScoreThreshold THEN best.index
                 ELSE detect_by_content(csv_content, k + 1)
             scored(headers) ==
                 decided(IF Len(headers) < 2 THEN [index |-> 0, score |-> 0]
                         ELSE best_match(headers_lower(headers), DetectDelimiters[k]))
         IN  scored(IF csv_content = <<>> THEN <<>>
                    ELSE csv_row(csv_content[1], DetectDelimiters[k]))

\* detect_bank_format: the key of the detected format
detect_bank_format(csv_content, filename) ==
    LET key_of(formats, index) == IF index = 0 THEN "generic" ELSE formats[index].key
        named(hits) ==
            IF hits # {} THEN CHOOSE i \in hits : \A j \in hits : i <= j
            ELSE detect_by_content(csv_content, 1)
    IN  key_of(BANK_FORMATS,
               named(IF filename = None \/ filename = "" THEN {}
                     ELSE FilenameMatches(filename)))

(***************************************************************************)
(* csv_import.py: import_csv                                               *)
(***************************************************************************)

\* the format import_csv works with
chosen_format(csv_content, bank_format, filename) ==
    IF bank_format # None /\ bank_format # "" /\ bank_format \in FormatKeys
    THEN bank_format
    ELSE detect_bank_format(csv_content, filename)

\* headers = next(reader, None), read with the format's delimiter
import_headers(csv_content, config) ==
    IF csv_content = <<>> THEN <<>> ELSE csv_row(csv_content[1], config.delimiter)

DebitNames == <<"Debit", "Lastschrift", "Débit", "Money Out", "Paid Out", "Debit Amount">>
CreditNames == <<"Credit", "Gutschrift", "Crédit", "Money In", "Paid In", "Credit Amount">>

\* the column indices import_csv works out from the header
import_columns(headers, config) ==
    [date_col |-> find_column(headers, config.date_column),
     amount_col |-> find_column(headers, config.amount_column),
     desc_col |-> find_column(headers, config.description_column),
     debit_col |-> find_column(headers, DebitNames),
     credit_col |-> find_column(headers, CreditNames)]

NoError == ""

\* the message of the CSVImportError raised before any row is read, NoError if none
structural_error(csv_content, config) ==
    LET missing(cols) ==
            IF cols.date_col = NoCol THEN "Could not find date column"
            ELSE IF cols.amount_col = NoCol THEN "Could not find amount column"
            ELSE NoError
        checked(headers) ==
            IF headers = <<>> THEN "CSV file is empty or has no headers"
            ELSE missing(import_columns(headers, config))
    IN  checked(import_headers(csv_content, config))

Max(a, b) == IF a >= b THEN a ELSE b

\* row[col] for a 0-based column
Cell(row, col) == row[col + 1]

\* A variant of the amount of a row that is credit - debit whatever the credit is
row_amount_plain_difference(row, cols, config) ==
    LET cell(col) == IF col < Len(row) THEN Cell(row, col) ELSE ""
    IN  IF cols.debit_col # NoCol /\ cols.credit_col # NoCol
        THEN AmtSub(parse_amount(cell(cols.credit_col), config.decimal_separator),
                    parse_amount(cell(cols.debit_col), config.decimal_separator))
        ELSE parse_amount(Cell(row, cols.amount_col), config.decimal_separator)

\* the amount of a row
row_amount(row, cols, config) ==
    LET cell(col) == IF col < Len(row) THEN Cell(row, col) ELSE ""
        net(debit, credit) ==
            IF AmtTruthy(credit) THEN AmtSub(credit, debit) ELSE AmtNeg(AmtAbs(debit))
    IN  IF cols.debit_col # NoCol /\ cols.credit_col # NoCol
        THEN net(parse_amount(cell(cols.debit_col), config.decimal_separator),
                 parse_amount(cell(cols.credit_col), config.decimal_separator))
        ELSE parse_amount(Cell(row, cols.amount_col), config.decimal_separator)

\* the description of a row
row_description(row, cols) ==
    IF cols.desc_col # NoCol /\ cols.desc_col # 0 /\ cols.desc_col < Len(row)
    THEN Strip(Cell(row, cols.desc_col))
    ELSE ""

\* A variant of the loop body that lists a short row among the errors
row_outcome_reports_short(row, row_num, cols, config, account_id) ==
    LET blank == [kind |-> "short", row |-> row_num, error |-> "", id |-> "",
                  booking_date |-> "", amount |-> Zero, description |-> ""]
        listed(date, amount, description) ==
            [kind |-> "txn", row |-> row_num, error |-> "",
             id |-> create_transaction_hash(account_id, date, amount, description),
             booking_date |-> date, amount |-> amount, description |-> description]
        valued(date, amount) ==
            IF AmtIsZero(amount) THEN [blank EXCEPT !.kind = "zero"]
            ELSE listed(date, amount, row_description(row, cols))
        dated(date_str, booking_date) ==
            IF booking_date = NoDate
            THEN [blank EXCEPT !.kind = "baddate",
                               !.error = "Row " \o NatStr(row_num)
                                         \o ": Could not parse date '" \o date_str \o "'"]
            ELSE valued(isoformat(booking_date), row_amount(row, cols, config))
        read(date_str) == dated(date_str, parse_date(date_str, config.date_formats))
    IN  IF Len(row) <= Max(cols.date_col, cols.amount_col)
        THEN [blank EXCEPT !.kind = "baddate",
                           !.error = "Row " \o NatStr(row_num) \o ": list index out of range"]
        ELSE read(Strip(Cell(row, cols.date_col)))

\* A variant of the loop body that passes a row with amount zero on to the
\* duplicate check
row_outcome_keeps_zero(row, row_num, cols, config, account_id) ==
    LET blank == [kind |-> "short", row |-> row_num, error |-> "", id |-> "",
                  booking_date |-> "", amount |-> Zero, description |-> ""]
        listed(date, amount, description) ==
            [kind |-> "txn", row |-> row_num, error |-> "",
             id |-> create_transaction_hash(account_id, date, amount, description),
             booking_date |-> date, amount |-> amount, description |-> description]
        dated(date_str, booking_date) ==
            IF booking_date = NoDate
            THEN [blank EXCEPT !.kind = "baddate",
                               !.error = "Row " \o NatStr(row_num)
                                         \o ": Could not parse date '" \o date_str \o "'"]
            ELSE listed(isoformat(booking_date), row_amount(row, cols, config),
                        row_description(row, cols))
        read(date_str) == dated(date_str, parse_date(date_str, config.date_formats))
    IN  IF Len(row) <= Max(cols.date_col, cols.amount_col) THEN blank
        ELSE read(Strip(Cell(row, cols.date_col)))

\* What the loop body of import_csv makes of one data row, before the
\* duplicate check: "short" and "zero" rows are passed over, a "baddate" row
\* adds an error, a "txn" row goes on to the duplicate check.
row_outcome(row, row_num, cols, config, account_id) ==
    LET blank == [kind |-> "short", row |-> row_num, error |-> "", id |-> "",
                  booking_date |-> "", amount |-> Zero, description |-> ""]
        listed(date, amount, description) ==
            [kind |-> "txn", row |-> row_num, error |-> "",
             id |-> create_transaction_hash(account_id, date, amount, description),
             booking_date |-> date, amount |-> amount, description |-> description]
        valued(date, amount) ==
            IF AmtIsZero(amount) THEN [blank EXCEPT !.kind = "zero"]
            ELSE listed(date, amount, row_description(row, cols))
        dated(date_str, booking_date) ==
            IF booking_date = NoDate
            THEN [blank EXCEPT !.kind = "baddate",
                               !.error = "Row " \o NatStr(row_num)
                                         \o ": Could not parse date '" \o date_str \o "'"]
            ELSE valued(isoformat(booking_date), row_amount(row, cols, config))
        read(date_str) == dated(date_str, parse_date(date_str, config.date_formats))
    IN  IF Len(row) <= Max(cols.date_col, cols.amount_col) THEN blank
        ELSE read(Strip(Cell(row, cols.date_col)))

\* the outcomes of the data rows (line 2 onwards) in file order
parse_rows(csv_content, config, account_id) ==
    LET cols == import_columns(import_headers(csv_content, config), config)
    IN  [n \in 1..(Len(csv_content) - 1) |->
            row_outcome(csv_row(csv_content[n + 1], config.delimiter), n + 1, cols, config,
                        account_id)]

\* seq[:n]
Take(seq, n) == SubSeq(seq, 1, IF Len(seq) < n THEN Len(seq) ELSE n)

\* A variant of the row loop that does not add a new row's id to the known
\* set: a row that repeats an earlier row of the file is listed for storing again
RECURSIVE row_loop_forgets_file_ids(_, _, _)
row_loop_forgets_file_ids(outcomes, k, acc) ==
    IF k > Len(outcomes) THEN acc
    ELSE LET o == outcomes[k]
         IN  IF o.kind = "baddate"
             THEN row_loop_forgets_file_ids(outcomes, k + 1,
                                            [acc EXCEPT !.errors = Append(@, o.error)])
             ELSE IF o.kind # "txn" THEN row_loop_forgets_file_ids(outcomes, k + 1, acc)
             ELSE IF o.id \in acc.existing_hashes
             THEN row_loop_forgets_file_ids(outcomes, k + 1,
                           [acc EXCEPT !.duplicates = Append(@,
                               [row |-> o.row, date |-> o.booking_date, amount |-> o.amount,
                                description |-> Take(o.description, 50)])])
             ELSE row_loop_forgets_file_ids(outcomes, k + 1,
                                            [acc EXCEPT !.transactions = Append(@, o)])

\* A variant of the row loop that gives up at the first row whose date does
\* not parse
RECURSIVE row_loop_stops_at_error(_, _, _)
row_loop_stops_at_error(outcomes, k, acc) ==
    IF k > Len(outcomes) THEN acc
    ELSE LET o == outcomes[k]
         IN  IF o.kind = "baddate" THEN [acc EXCEPT !.errors = Append(@, o.error)]
             ELSE IF o.kind # "txn" THEN row_loop_stops_at_error(outcomes, k + 1, acc)
             ELSE IF o.id \in acc.existing_hashes
             THEN row_loop_stops_at_error(outcomes, k + 1,
                           [acc EXCEPT !.duplicates = Append(@,
                               [row |-> o.row, date |-> o.booking_date, amount |-> o.amount,
                                description |-> Take(o.description, 50)])])
             ELSE row_loop_stops_at_error(outcomes, k + 1,
                           [acc EXCEPT !.transactions = Append(@, o),
                                       !.existing_hashes = @ \cup {o.id}])

\* A variant of the row loop that also puts a message in the error list for a
\* row it reports as a duplicate
RECURSIVE row_loop_duplicate_is_error(_, _, _)
row_loop_duplicate_is_error(outcomes, k, acc) ==
    IF k > Len(outcomes) THEN acc
    ELSE LET o == outcomes[k]
         IN  IF o.kind = "baddate"
             THEN row_loop_duplicate_is_error(outcomes, k + 1,
                                              [acc EXCEPT !.errors = Append(@, o.error)])
             ELSE IF o.kind # "txn" THEN row_loop_duplicate_is_error(outcomes, k + 1, acc)
             ELSE IF o.id \in acc.existing_hashes
             THEN row_loop_duplicate_is_error(outcomes, k + 1,
                           [acc EXCEPT !.duplicates = Append(@,
                               [row |-> o.row, date |-> o.booking_date, amount |-> o.amount,
                                description |-> Take(o.description, 50)]),
                                       !.errors = Append(@, "Row " \o NatStr(o.row)
                                                            \o ": duplicate")])
             ELSE row_loop_duplicate_is_error(outcomes, k + 1,
                           [acc EXCEPT !.transactions = Append(@, o),
                                       !.existing_hashes = @ \cup {o.id}])

\* The row loop from the k-th outcome on.  acc holds the loop's variables:
\* transactions, duplicates, errors, existing_hashes.
RECURSIVE row_loop(_, _, _)
row_loop(outcomes, k, acc) ==
    IF k > Len(outcomes) THEN acc
    ELSE LET o == outcomes[k]
         IN  IF o.kind = "baddate"
             THEN row_loop(outcomes, k + 1, [acc EXCEPT !.errors = Append(@, o.error)])
             ELSE IF o.kind # "txn" THEN row_loop(outcomes, k + 1, acc)
             ELSE IF o.id \in acc.existing_hashes
             THEN row_loop(outcomes, k + 1,
                           [acc EXCEPT !.duplicates = Append(@,
                               [row |-> o.row, date |-> o.booking_date, amount |-> o.amount,
                                description |-> Take(o.description, 50)])])
             ELSE row_loop(outcomes, k + 1,
                           [acc EXCEPT !.transactions = Append(@, o),
                                       !.existing_hashes = @ \cup {o.id}])

\* the row a transaction of the list becomes in the transactions table
txn_row(txn, account_id, currency) ==
    [id |-> txn.id, account_id |-> account_id, booking_date |-> txn.booking_date,
     amount |-> txn.amount, currency |-> currency, creditor_name |-> None,
     debtor_name |-> None, description |-> txn.description, mcc_code |-> None,
     category |-> None, category_source |-> "pending"]

\* A variant of the insert that stores every row under an id of the store's
\* own making instead of the row's content hash
insert_with_serial_id(table, row) ==
    table \cup {[row EXCEPT !.id = row.id \o "-" \o NatStr(Cardinality(table))]}

\* INSERT OR IGNORE INTO transactions: the row is left out when its id is a
\* stored id (PRIMARY KEY) or when its amount binds as NULL, which is what
\* SQLite makes of a nan (amount REAL NOT NULL)
insert_or_ignore(table, row) ==
    IF (\E t \in table : t.id = row.id) \/ row.amount = NaN
    THEN table
    ELSE table \cup {row}

\* the store loop over the transactions list from the k-th on
RECURSIVE store_loop(_, _, _, _, _)
store_loop(table, txns, k, account_id, currency) ==
    IF k > Len(txns) THEN table
    ELSE store_loop(insert_or_ignore(table, txn_row(txns[k], account_id, currency)),
                    txns, k + 1, account_id, currency)

\* SELECT id FROM transactions WHERE account_id = ?
existing_ids(table, account_id) == {t.id : t \in {u \in table : u.account_id = account_id}}

\* store_csv_account: update the account's name and currency, or insert it
store_csv_account(table, account_id, name, currency, now) ==
    IF \E a \in table : a.id = account_id
    THEN {IF a.id = account_id
          THEN [a EXCEPT !.name = name, !.currency = currency, !.last_import_at = now]
          ELSE a : a \in table}
    ELSE table \cup {[id |-> account_id, institution_id |-> "csv_import", name |-> name,
                      currency |-> currency, created_at |-> now, last_import_at |-> 0]}

\* A variant of delete_csv_account whose DELETE has no WHERE clause
delete_csv_account_unscoped(txn_table, acct_table, account_id, delete_transactions) ==
    [transactions |-> IF delete_transactions THEN {} ELSE txn_table,
     accounts |-> {a \in acct_table :
                      ~(a.id = account_id /\ a.institution_id = "csv_import")},
     success |-> \E a \in acct_table : a.id = account_id /\ a.institution_id = "csv_import"]

\* delete_csv_account: the new tables and whether an account row was deleted
delete_csv_account(txn_table, acct_table, account_id, delete_transactions) ==
    [transactions |-> IF delete_transactions
                      THEN {t \in txn_table : t.account_id # account_id}
                      ELSE txn_table,
     accounts |-> {a \in acct_table :
                      ~(a.id = account_id /\ a.institution_id = "csv_import")},
     success |-> \E a \in acct_table : a.id = account_id /\ a.institution_id = "csv_import"]

\* import_csv from the header to the end of the row loop's parsing, for the
\* format that was chosen: everything that does not read the store
import_plan(csv_content, account_id, format_key) ==
    LET planned(config, raised) ==
            [format_key |-> format_key,
             raised |-> raised,
             total_rows |-> IF raised = NoError THEN Len(csv_content) - 1 ELSE 0,
             outcomes |-> IF raised = NoError THEN parse_rows(csv_content, config, account_id)
                          ELSE <<>>]
        checked(config) == planned(config, structural_error(csv_content, config))
    IN  checked(FormatOf(format_key))

NoResult == [success |-> FALSE]

\* A variant of import_csv that stores the account before it looks for the
\* date and amount columns
import_csv_checks_late(txn_table, acct_table, plan, account_id, account_name, currency, now) ==
    LET name == IF account_name # None /\ account_name # "" THEN account_name
                ELSE "CSV Import - " \o FormatOf(plan.format_key).name
    IN  [raised |-> plan.raised, transactions |-> txn_table,
         accounts |-> store_csv_account(acct_table, account_id, name, currency, now),
         result |-> NoResult]

\* import_csv from the load of the account's ids on: the new tables and the
\* returned result; when the plan raised, the tables as they were
import_csv(txn_table, acct_table, plan, account_id, account_name, currency, now) ==
    LET loop == row_loop(plan.outcomes, 1,
                         [transactions |-> <<>>, duplicates |-> <<>>, errors |-> <<>>,
                          existing_hashes |-> existing_ids(txn_table, account_id)])
        stored(bank_name) ==
            [raised |-> NoError,
             transactions |-> store_loop(txn_table, loop.transactions, 1, account_id, currency),
             accounts |-> store_csv_account(acct_table, account_id,
                              IF account_name # None /\ account_name # "" THEN account_name
                              ELSE "CSV Import - " \o bank_name,
                              currency, now),
             result |-> [success |-> TRUE,
                         bank_format |-> plan.format_key,
                         bank_name |-> bank_name,
                         account_id |-> account_id,
                         account_name |-> account_name,
                         total_rows |-> plan.total_rows,
                         imported |-> Len(loop.transactions),
                         duplicates |-> Len(loop.duplicates),
                         duplicate_details |-> Take(loop.duplicates, 10),
                         errors |-> Take(loop.errors, 10),
                         error_count |-> Len(loop.errors),
                         transactions |-> loop.transactions]]
    IN  IF plan.raised # NoError
        THEN [raised |-> plan.raised, transactions |-> txn_table, accounts |-> acct_table,
              result |-> NoResult]
        ELSE stored(FormatOf(plan.format_key).name)

(***************************************************************************)
(* categorize.py: the rule set                                             *)
(***************************************************************************)

DefaultCategoryDefs == <<
    [name |-> "groceries",
     keywords |-> <<"migros", "coop", "manor", "denner", "aldi", "lidl", "spar", "volg",
            "aperto", "supermarket", "grocery", "lebensmittel", "epicerie", "grocery">>,
     patterns |-> <<"(?i)migros.*", "(?i)coop.*", "(?i).*supermarkt.*", "(?i).*grocery.*">>],
    [name |-> "dining",
     keywords |-> <<"restaurant", "cafe", "starbucks", "mcdonald", "burger king", "subway",
            "pizza", "kebab", "bistro", "bar", "pub", "takeaway", "delivery", "uber eats",
            "just eat">>,
     patterns |-> <<"(?i).*restaurant.*", "(?i).*cafe.*", "(?i).*pizza.*", "(?i)starbucks.*",
            "(?i)mc.*donald.*">>],
    [name |-> "transport",
     keywords |-> <<"sbb", "zvv", "tpg", "vbl", "uber", "taxi", "parking", "tankstelle",
            "petrol", "gas", "mobility", "car2go", "share now", "publibike", "lime", "bird",
            "tier">>,
     patterns |-> <<"(?i)sbb.*", "(?i)zvv.*", "(?i).*taxi.*", "(?i).*parking.*",
            "(?i).*tankstelle.*", "(?i)uber.*">>],
    [name |-> "shopping",
     keywords |-> <<"amazon", "zalando", "h&m", "zara", "manor", "globus", "interdiscount",
            "digitec", "galaxus", "media markt", "ikea", "bauhaus", "obi", "landi", "jumbo">>,
     patterns |-> <<"(?i)amazon.*", "(?i)zalando.*", "(?i)digitec.*", "(?i)galaxus.*">>],
    [name |-> "subscriptions",
     keywords |-> <<"netflix", "spotify", "apple", "google", "microsoft", "adobe", "dropbox",
            "icloud", "youtube", "prime", "disney", "swisscom", "sunrise", "salt", "upc">>,
     patterns |-> <<"(?i)netflix.*", "(?i)spotify.*", "(?i)apple.*subscription.*",
            "(?i).*monthly.*", "(?i).*subscription.*">>],
    [name |-> "utilities",
     keywords |-> <<"ewz", "swisscom", "sunrise", "salt", "swissgas", "energie", "electricity",
            "water", "heating", "internet", "phone", "mobile", "insurance", "versicherung">>,
     patterns |-> <<"(?i).*energie.*", "(?i).*electricity.*", "(?i).*versicherung.*",
            "(?i).*insurance.*">>],
    [name |-> "entertainment",
     keywords |-> <<"cinema", "kino", "theater", "concert", "tickets", "steam", "playstation",
            "xbox", "nintendo", "game", "ticketcorner", "starticket", "eventim">>,
     patterns |-> <<"(?i).*cinema.*", "(?i).*kino.*", "(?i).*tickets.*", "(?i)steam.*">>],
    [name |-> "health",
     keywords |-> <<"pharmacy", "apotheke", "doctor", "dentist", "hospital", "zahnarzt",
            "arzt", "medizin", "fitness", "gym", "physiotherapy", "massage">>,
     patterns |-> <<"(?i).*apotheke.*", "(?i).*pharmacy.*", "(?i).*medical.*", "(?i).*fitness.*">>],
    [name |-> "housing",
     keywords |-> <<"rent", "miete", "mortgage", "hypothek", "utilities", "cleaning",
            "maintenance", "repairs", "furniture">>,
     patterns |-> <<"(?i).*miete.*", "(?i).*rent.*", "(?i).*hypothek.*">>],
    [name |-> "transfers",
     keywords |-> <<"twint", "transfer", "überweisung", "paypal", "revolut", "wise",
            "westernunion", "bank transfer">>,
     patterns |-> <<"(?i)twint.*", "(?i).*transfer.*", "(?i).*überweisung.*">>]
>>

DefaultMccMappings == <<
    <<"5411", "groceries">>,
    <<"5812", "dining">>,
    <<"5814", "dining">>,
    <<"4111", "transport">>,
    <<"4121", "transport">>,
    <<"5541", "transport">>,
    <<"5300", "shopping">>,
    <<"5651", "shopping">>,
    <<"5732", "shopping">>,
    <<"4899", "utilities">>,
    <<"5968", "entertainment">>
>>

\* get_default_categories()
get_default_categories == [categories |-> DefaultCategoryDefs, mcc_mappings |-> DefaultMccMappings]

\* mcc_mappings.get(code): the mapped category, None if the code is no key
mcc_lookup(mappings, code) ==
    LET hits == {i \in 1..Len(mappings) : mappings[i][1] = code}
    IN  IF hits = {} THEN None ELSE mappings[CHOOSE i \in hits : TRUE][2]

(***************************************************************************)
(* re.search for the expressions of the rule set: literal characters,      *)
(* backslash-escaped characters, "." and ".*", after an optional "(?i)".   *)
(***************************************************************************)

\* the lower case of one character as re compares characters under (?i): one
\* character always, i for U+0130
unicode_tolower(c) == IF c = CapitalIWithDot THEN "i" ELSE Lower(c)

SameChar(a, b, ignorecase) ==
    IF ignorecase THEN unicode_tolower(a) = unicode_tolower(b) ELSE a = b

\* whether the expression from position pi on matches text at position si
RECURSIVE re_match_at(_, _, _, _, _)
re_match_at(pattern, pi, text, si, ignorecase) ==
    IF pi > Len(pattern) THEN TRUE
    ELSE IF Ch(pattern, pi) = "\\"
    THEN /\ si <= Len(text)
         /\ SameChar(Ch(pattern, pi + 1), Ch(text, si), ignorecase)
         /\ re_match_at(pattern, pi + 2, text, si + 1, ignorecase)
    ELSE IF Ch(pattern, pi) = "." /\ Ch(pattern, pi + 1) = "*"
    THEN \E j \in si..(Len(text) + 1) : re_match_at(pattern, pi + 2, text, j, ignorecase)
    ELSE IF Ch(pattern, pi) = "."
    THEN si <= Len(text) /\ re_match_at(pattern, pi + 1, text, si + 1, ignorecase)
    ELSE /\ si <= Len(text)
         /\ SameChar(Ch(pattern, pi), Ch(text, si), ignorecase)
         /\ re_match_at(pattern, pi + 1, text, si + 1, ignorecase)

\* re.search(pattern, text) is not None
re_search(pattern, text) ==
    LET ignorecase == StartsWith(pattern, "(?i)")
        body == IF ignorecase THEN SubSeq(pattern, 5, Len(pattern)) ELSE pattern
    IN  \E si \in 1..(Len(text) + 1) : re_match_at(body, 1, text, si, ignorecase)

(***************************************************************************)
(* categorize.py: categorize_transaction.  A transaction is a record of    *)
(* its fields; a text field holds None for null and Missing when the dict  *)
(* has no such key, the amount field holds NoAmount or MissingAmount then. *)
(***************************************************************************)

Missing == "<missing>"
NoAmount == [k |-> "none", v |-> 0]
MissingAmount == [k |-> "missing", v |-> 0]

\* transaction.get(field, '') or ''
TextOr(v) == IF v = None \/ v = Missing THEN "" ELSE v

\* whether one category definition matches the text; a definition without
\* 'patterns' or 'keywords' has none (category_def.get(key, []))
category_matches(category_def, combined_text) ==
    LET get(key) == IF key \in DOMAIN category_def THEN category_def[key] ELSE <<>>
        hit(patterns, keywords) ==
            \/ \E i \in 1..Len(patterns) : re_search(patterns[i], combined_text)
            \/ \E i \in 1..Len(keywords) : Contains(combined_text, Lower(keywords[i]))
    IN  hit(get("patterns"), get("keywords"))

\* A variant of the text match that tries the patterns of all categories
\* before the keywords of any
text_match_patterns_first(categories, combined_text, k) ==
    LET byPattern == {i \in k..Len(categories) :
                         \E j \in 1..Len(categories[i].patterns) :
                             re_search(categories[i].patterns[j], combined_text)}
        byKeyword == {i \in k..Len(categories) :
                         \E j \in 1..Len(categories[i].keywords) :
                             Contains(combined_text, Lower(categories[i].keywords[j]))}
        First(hits) == categories[CHOOSE i \in hits : \A j \in hits : i <= j].name
    IN  IF byPattern # {} THEN First(byPattern)
        ELSE IF byKeyword # {} THEN First(byKeyword)
        ELSE None

\* A variant of the text match that finds nothing
text_match_none(categories, combined_text, k) == None

\* the name of the first category definition, from the k-th on, that matches; None if none
RECURSIVE first_text_match(_, _, _)
first_text_match(categories, combined_text, k) ==
    IF k > Len(categories) THEN None
    ELSE IF category_matches(categories[k], combined_text) THEN categories[k].name
    ELSE first_text_match(categories, combined_text, k + 1)

FeeWords == <<"fee", "gebühr", "charge">>

Units(n) == n * 1000

TypeError == "<TypeError>"

\* A variant of the heuristics that takes only Sunday for the weekend
heuristic_category_sunday_only(transaction, combined_text) ==
    LET weekend(date_obj) == date_obj # NoDate /\ weekday(date_obj) >= 6
        by_day(a, booking_date) ==
            IF /\ booking_date # None /\ booking_date # ""
               /\ weekend(fromisoformat(booking_date))
               /\ AmtGe(a, Units(20)) /\ AmtLe(a, Units(150))
            THEN "dining"
            ELSE "other"
        by_amount(amount, a) ==
            IF amount = NoAmount THEN TypeError
            ELSE IF AmtGt(amount, 0)
            THEN (IF AmtGt(amount, Units(1000)) THEN "income" ELSE "transfers")
            ELSE IF AmtLt(a, Units(5))
            THEN (IF \E i \in 1..Len(FeeWords) : Contains(combined_text, FeeWords[i])
                  THEN "utilities" ELSE "subscriptions")
            ELSE IF AmtGt(a, Units(1000)) THEN "housing"
            ELSE by_day(a, IF transaction.booking_date = Missing THEN ""
                           ELSE transaction.booking_date)
        signed(amount) == by_amount(amount, AmtAbs(amount))
    IN  signed(IF transaction.amount = MissingAmount THEN Zero ELSE transaction.amount)

\* steps 5 to 7: the amount heuristics, the weekend heuristic, the default
heuristic_category(transaction, combined_text) ==
    LET weekend(date_obj) == date_obj # NoDate /\ weekday(date_obj) >= 5
        by_day(a, booking_date) ==
            IF /\ booking_date # None /\ booking_date # ""
               /\ weekend(fromisoformat(booking_date))
               /\ AmtGe(a, Units(20)) /\ AmtLe(a, Units(150))
            THEN "dining"
            ELSE "other"
        by_amount(amount, a) ==
            IF amount = NoAmount THEN TypeError
            ELSE IF AmtGt(amount, 0)
            THEN (IF AmtGt(amount, Units(1000)) THEN "income" ELSE "transfers")
            ELSE IF AmtLt(a, Units(5))
            THEN (IF \E i \in 1..Len(FeeWords) : Contains(combined_text, FeeWords[i])
                  THEN "utilities" ELSE "subscriptions")
            ELSE IF AmtGt(a, Units(1000)) THEN "housing"
            ELSE by_day(a, IF transaction.booking_date = Missing THEN ""
                           ELSE transaction.booking_date)
        signed(amount) == by_amount(amount, AmtAbs(amount))
    IN  signed(IF transaction.amount = MissingAmount THEN Zero ELSE transaction.amount)

\* A variant of categorize_transaction that looks the merchant category code
\* up before it matches the text
categorize_code_first(transaction, categories_config) ==
    LET combined_text == Lower(TextOr(transaction.creditor_name) \o " "
                               \o TextOr(transaction.debtor_name) \o " "
                               \o TextOr(transaction.description))
        by_text == first_text_match(categories_config.categories, combined_text, 1)
        mcc_code == transaction.mcc_code
        by_mcc == IF mcc_code = None \/ mcc_code = Missing \/ mcc_code = "" THEN None
                  ELSE mcc_lookup(categories_config.mcc_mappings, mcc_code)
    IN  IF transaction.category_source = "user"
        THEN (IF transaction.category = Missing THEN "other" ELSE transaction.category)
        ELSE IF by_mcc # None THEN by_mcc
        ELSE IF by_text # None THEN by_text
        ELSE heuristic_category(transaction, combined_text)

categorize_transaction(transaction, categories_config) ==
    LET by_code(mcc_code) ==
            IF mcc_code = None \/ mcc_code = Missing \/ mcc_code = "" THEN None
            ELSE mcc_lookup(categories_config.mcc_mappings, mcc_code)
        after_code(combined_text, by_mcc) ==
            IF by_mcc # None THEN by_mcc
            ELSE heuristic_category(transaction, combined_text)
        after_text(combined_text, by_text) ==
            IF by_text # None THEN by_text
            ELSE after_code(combined_text, by_code(transaction.mcc_code))
        matched(combined_text) ==
            after_text(combined_text,
                       first_text_match(categories_config.categories, combined_text, 1))
    IN  IF transaction.category_source = "user"
        THEN (IF transaction.category = Missing THEN "other" ELSE transaction.category)
        ELSE matched(Lower(TextOr(transaction.creditor_name) \o " "
                           \o TextOr(transaction.debtor_name) \o " "
                           \o TextOr(transaction.description)))

(***************************************************************************)
(* categorize.py: add_merchant_rule.  The rule file config/categories.json *)
(* is held as the value json.load reads from it: a rule set is made of     *)
(* dicts with string keys, lists and strings only, which json.dump and     *)
(* json.load carry unchanged.  A category definition is a function from    *)
(* the keys it has, so a definition without 'patterns' has no such key.    *)
(***************************************************************************)

\* no categories.json on disk
NoFile == [file |-> "none"]

\* a file that json.load raises on
CorruptFile == [file |-> "not JSON"]

\* the characters re.escape puts a backslash before
EscapedChars ==
    {Ch("()[]{}?*+-|^$.&~# ", i) : i \in 1..18} \cup {"\\", "\t", "\n", "\r", "\f"}

\* re.escape(s)
RECURSIVE re_escape(_)
re_escape(s) ==
    IF s = "" THEN ""
    ELSE (IF Ch(s, 1) \in EscapedChars THEN "\\" ELSE "") \o Ch(s, 1) \o re_escape(Tail1(s))

\* A variant of add_merchant_rule that appends the pattern without looking
\* for it in the list
add_merchant_rule_appends(file, merchant_pattern, category) ==
    LET added(config, i, patterns) ==
            [file |-> [config EXCEPT !.categories[i] =
                          ("patterns" :> Append(patterns, "(?i).*" \o re_escape(merchant_pattern) \o ".*"))
                              @@ config.categories[i]],
             result |-> TRUE]
        found(config, hits) ==
            IF hits = {} THEN [file |-> file, result |-> FALSE]
            ELSE LET i == CHOOSE i \in hits : \A j \in hits : i <= j
                 IN  added(config, i,
                           IF "patterns" \in DOMAIN config.categories[i]
                           THEN config.categories[i].patterns ELSE <<>>)
        loaded(config) ==
            found(config, {i \in DOMAIN config.categories :
                              config.categories[i].name = Lower(category)})
    IN  IF file = CorruptFile \/ category = None \/ merchant_pattern = None
        THEN [file |-> file, result |-> FALSE]
        ELSE loaded(IF file = NoFile THEN get_default_categories ELSE file)

\* A variant of add_merchant_rule that writes the file it loaded back also
\* when it has found no category
add_merchant_rule_always_saves(file, merchant_pattern, category) ==
    LET added(config, i, patterns, pattern) ==
            [file |-> [config EXCEPT !.categories[i] =
                          ("patterns" :> (IF \E k \in DOMAIN patterns : patterns[k] = pattern
                                          THEN patterns ELSE Append(patterns, pattern)))
                              @@ config.categories[i]],
             result |-> TRUE]
        found(config, hits) ==
            IF hits = {} THEN [file |-> config, result |-> FALSE]
            ELSE LET i == CHOOSE i \in hits : \A j \in hits : i <= j
                 IN  added(config, i,
                           IF "patterns" \in DOMAIN config.categories[i]
                           THEN config.categories[i].patterns ELSE <<>>,
                           "(?i).*" \o re_escape(merchant_pattern) \o ".*")
        loaded(config) ==
            found(config, {i \in DOMAIN config.categories :
                              config.categories[i].name = Lower(category)})
    IN  IF file = CorruptFile \/ category = None \/ merchant_pattern = None
        THEN [file |-> file, result |-> FALSE]
        ELSE loaded(IF file = NoFile THEN get_default_categories ELSE file)

\* add_merchant_rule(merchant_pattern, category): the rule file after the call
\* and the returned boolean.  Every exception (a file that does not load, a
\* null argument) is caught and gives False.
add_merchant_rule(file, merchant_pattern, category) ==
    LET added(config, i, patterns, pattern) ==
            [file |-> [config EXCEPT !.categories[i] =
                          ("patterns" :> (IF \E k \in DOMAIN patterns : patterns[k] = pattern
                                          THEN patterns ELSE Append(patterns, pattern)))
                              @@ config.categories[i]],
             result |-> TRUE]
        found(config, hits) ==
            IF hits = {} THEN [file |-> file, result |-> FALSE]
            ELSE LET i == CHOOSE i \in hits : \A j \in hits : i <= j
                 IN  added(config, i,
                           IF "patterns" \in DOMAIN config.categories[i]
                           THEN config.categories[i].patterns ELSE <<>>,
                           "(?i).*" \o re_escape(merchant_pattern) \o ".*")
        loaded(config) ==
            found(config, {i \in DOMAIN config.categories :
                              config.categories[i].name = Lower(category)})
    IN  IF file = CorruptFile \/ category = None \/ merchant_pattern = None
        THEN [file |-> file, result |-> FALSE]
        ELSE loaded(IF file = NoFile THEN get_default_categories ELSE file)

(***************************************************************************)
(* db.py: the operations on the transactions table that the categorization *)
(* engine and the user override use.  A calendar day is its ordinal.       *)
(***************************************************************************)

\* date.fromordinal(n)
fromordinal(n) ==
    LET y == CHOOSE c \in (n \div 366)..(n \div 365 + 1) :
                 /\ c >= 1
                 /\ toordinal([y |-> c, m |-> 1, d |-> 1]) <= n
                 /\ toordinal([y |-> c + 1, m |-> 1, d |-> 1]) > n
        m == CHOOSE c \in 1..12 :
                 /\ toordinal([y |-> y, m |-> c, d |-> 1]) <= n
                 /\ toordinal([y |-> y, m |-> c, d |-> DaysInMonth(y, c)]) >= n
    IN  [y |-> y, m |-> m, d |-> n - toordinal([y |-> y, m |-> m, d |-> 1]) + 1]

\* SQLite's date('now', '-N days') on the calendar day today
sql_date_now_minus(today, days) == isoformat(fromordinal(today - days))

\* the characters of the stored dates, in the order of their codes
CharOrder == " -0123456789:"

CharRank(c) == IF Contains(CharOrder, c) /\ Len(c) = 1
               THEN CHOOSE i \in 1..Len(CharOrder) : Ch(CharOrder, i) = c
               ELSE Len(CharOrder) + 1

\* a >= b for TEXT values (BINARY collation)
RECURSIVE text_ge(_, _)
text_ge(a, b) ==
    IF b = "" THEN TRUE
    ELSE IF a = "" THEN FALSE
    ELSE IF CharRank(Ch(a, 1)) # CharRank(Ch(b, 1)) THEN CharRank(Ch(a, 1)) > CharRank(Ch(b, 1))
    ELSE text_ge(Tail1(a), Tail1(b))

\* text LIKE pattern: "%" stands for any run of characters, "_" for any one
\* character, a letter for itself in either case
RECURSIVE sql_like(_, _)
sql_like(text, pattern) ==
    IF pattern = "" THEN text = ""
    ELSE IF Ch(pattern, 1) = "%"
    THEN \E i \in 1..(Len(text) + 1) : sql_like(SubSeq(text, i, Len(text)), Tail1(pattern))
    ELSE IF text = "" THEN FALSE
    ELSE /\ Ch(pattern, 1) = "_" \/ Lower(Ch(pattern, 1)) = Lower(Ch(text, 1))
         /\ sql_like(Tail1(text), Tail1(pattern))

\* set_transaction_category: the new table and the returned flag
set_transaction_category(table, transaction_id, category) ==
    LET hit(t) == sql_like(t.id, transaction_id \o "%")
    IN  [transactions |-> {IF hit(t) THEN [t EXCEPT !.category = category,
                                                    !.category_source = "user"]
                           ELSE t : t \in table},
         success |-> \E t \in table : hit(t)]

DefaultDays == 7

\* A variant of get_recent_transactions that also selects the rows that have a category
get_recent_any_category(table, today, days) ==
    LET n == IF days < 0 THEN DefaultDays ELSE days
    IN  {t \in table : text_ge(t.booking_date, sql_date_now_minus(today, n))}

\* get_recent_transactions(days), as the set of the selected rows
get_recent_transactions(table, today, days) ==
    LET n == IF days < 0 THEN DefaultDays ELSE days
    IN  {t \in table : /\ text_ge(t.booking_date, sql_date_now_minus(today, n))
                       /\ t.category = None}

\* update_transaction_categories(category_updates); the updates are a set of
\* <<id, category>> pairs with one pair for an id
update_transaction_categories(table, category_updates) ==
    {IF \E u \in category_updates : u[1] = t.id
     THEN [t EXCEPT !.category = (CHOOSE u \in category_updates : u[1] = t.id)[2],
                    !.category_source = "auto"]
     ELSE t : t \in table}

(***************************************************************************)
(* db.py: the rate limiter.  A row of rate_limits is keyed by account and  *)
(* endpoint; a day is its ordinal, written to the table in ISO form.       *)
(***************************************************************************)

\* config.py
DAILY_API_CALL_LIMIT == 3

\* check_rate_limit(account_id, endpoint): the table after the call and the
\* returned boolean
check_rate_limit(table, account_id, endpoint, now) ==
    LET reset(row) ==
            (table \ {row})
                \cup {[row EXCEPT !.calls_today = 0,
                                  !.reset_date = isoformat(fromordinal(now)),
                                  !.last_call_at = None]}
        checked(row) ==
            IF row.reset_date # isoformat(fromordinal(now))
            THEN [table |-> reset(row), result |-> TRUE]
            ELSE [table |-> table, result |-> row.calls_today < DAILY_API_CALL_LIMIT]
        selected(rows) ==
            IF rows = {} THEN [table |-> table, result |-> TRUE]
            ELSE checked(CHOOSE r \in rows : TRUE)
    IN  selected({r \in table : r.account_id = account_id /\ r.endpoint = endpoint})

\* record_api_call(account_id, endpoint): INSERT OR REPLACE of the row of the
\* key, with the stored counter (0 if there is no row) plus one
record_api_call(table, account_id, endpoint, now) ==
    LET keyed == {r \in table : r.account_id = account_id /\ r.endpoint = endpoint}
        counted(calls) ==
            (table \ keyed)
                \cup {[account_id |-> account_id, endpoint |-> endpoint,
                       last_call_at |-> isoformat(fromordinal(now)),
                       calls_today |-> calls + 1,
                       reset_date |-> isoformat(fromordinal(now))]}
    IN  counted(IF keyed = {} THEN 0 ELSE (CHOOSE r \in keyed : TRUE).calls_today)

(***************************************************************************)
(* The files, import requests and accounts the model runs the program on   *)
(***************************************************************************)

\* account ids as finance.py derives them: md5(name.lower())[:12] of "main", "savings"
AccountIds == {"fad58de73664", "4bfddaa41fee"}

FileGeneric ==
    <<"Date,Amount,Description",
      "2025-01-04,-45.00,Migros Zurich",
      "2025-01-06,-3.00,monthly fee",
      "2025-13-02,-10.00,broken",
      "2024-12-20,-80.00,Old dinner">>

FileRepeats ==
    <<"Date,Amount,Description",
      "2025-01-04,-45.00,Migros Zurich",
      "2025-01-04,-45.00,migros   ZURICH",
      "2025-01-05,0.00,nothing",
      "2025-01-05",
      "2025-13-05,-9.00,broken">>

FileGerman ==
    <<"Buchungstag;Betrag;Verwendungszweck",
      "04.01.2025;-45,00;Migros Zurich",
      "11.01.2025;-1.234,56;Miete Januar">>

FileEmpty == <<>>

FileNoAmount == <<"Date,Description", "2025-01-04,Migros Zurich">>

FileNoDate == <<"Amount,Description", "-45.00,Migros Zurich">>

FileNan ==
    <<"Date,Amount,Description",
      "2025-01-08,nan,odd entry",
      "2025-01-11,-60.00,Trattoria">>

FileShort ==
    <<"Date,Amount,Description",
      "2025-01-07,-12.50,Bakery",
      "2025-01-08",
      "2025-01-09,-20.00,Kiosk">>

\* separate debit and credit columns next to the amount column
FileDebitCredit ==
    <<"Date,Amount,Debit,Credit,Description",
      "2025-01-07,,12.50,,Bakery",
      "2025-01-08,,,100.00,Salary",
      "2025-01-09,,5.00,20.00,Refund",
      "2025-01-10,,-50.00,0.00,Fee",
      "2025-01-11,99.00,,,Transfer">>

\* the description in the first column
FileDescFirst ==
    <<"Description,Date,Amount",
      "Bakery,2025-01-07,-12.50",
      "Kiosk,2025-01-07,-12.50">>

\* the column names of the German formats in a comma-separated file
FileCommaGerman ==
    <<"Buchungstag,Betrag,Verwendungszweck",
      "10.01.2025,-5.00,Kaffee">>

\* an import request: the file, the --format option, the file's name
Requests ==
    <<[csv_content |-> FileGeneric, bank_format |-> "generic", filename |-> None],
      [csv_content |-> FileRepeats, bank_format |-> "generic", filename |-> None],
      [csv_content |-> FileGerman, bank_format |-> None, filename |-> "export.csv"],
      [csv_content |-> FileEmpty, bank_format |-> None, filename |-> "ubs_export.csv"],
      [csv_content |-> FileNoAmount, bank_format |-> "generic", filename |-> None],
      [csv_content |-> FileNoDate, bank_format |-> "generic", filename |-> None],
      [csv_content |-> FileNan, bank_format |-> "generic", filename |-> None],
      [csv_content |-> FileShort, bank_format |-> "generic", filename |-> None],
      [csv_content |-> FileDebitCredit, bank_format |-> "generic", filename |-> None],
      [csv_content |-> FileDescFirst, bank_format |-> "generic", filename |-> None],
      [csv_content |-> FileCommaGerman, bank_format |-> None, filename |-> None]>>

\* the format import_csv chooses for every request
ChosenFormats ==
    [r \in DOMAIN Requests |->
        chosen_format(Requests[r].csv_content, Requests[r].bank_format, Requests[r].filename)]

\* import_plan of every request for every account
Plans ==
    [r \in DOMAIN Requests |->
        [a \in AccountIds |-> import_plan(Requests[r].csv_content, a, ChosenFormats[r])]]

\* the rows the requests can store
PlannedRows ==
    LET rows(plans) ==
            UNION {{txn_row(plans[r][a].outcomes[i], a, "EUR") :
                       i \in {j \in DOMAIN plans[r][a].outcomes :
                                 plans[r][a].outcomes[j].kind = "txn"}} :
                   r \in DOMAIN plans, a \in AccountIds}
    IN  rows(Plans)

\* categorize_transaction under the default rule set, for every such row
AutoCategories == [t \in PlannedRows |-> categorize_transaction(t, get_default_categories)]

\* categorize_transaction(transaction) with no categories.json on disk
categorize(t) ==
    LET looked_up(known) ==
            IF t \in DOMAIN known THEN known[t]
            ELSE categorize_transaction(t, get_default_categories)
    IN  looked_up(AutoCategories)

\* auto_categorize_recent(days): the new table and the returned count
auto_categorize_recent(table, now, days) ==
    LET updated(category_updates) ==
            [transactions |-> IF category_updates = {} THEN table
                              ELSE update_transaction_categories(table, category_updates),
             count |-> Cardinality(category_updates)]
        categorized(pairs) == updated({p \in pairs : p[2] \notin {None, "", "other"}})
    IN  categorized({<<t.id, categorize(t)>> : t \in get_recent_transactions(table, now, days)})

\* the day the model starts on: 2025-01-11
FirstDay == toordinal([y |-> 2025, m |-> 1, d |-> 11])

\* the bounds of the model
MaxOps == 3

\* the categories the user assigns
UserCategories == {"dining"}

(***************************************************************************)
(* The state                                                               *)
(***************************************************************************)

VARIABLES
    transactions,   \* the transactions table, a set of rows
    accounts,       \* the accounts table, a set of rows
    today,          \* the calendar day, as an ordinal
    last,           \* the last operation: its arguments, its outcome, the tables before it
    prev,           \* the operation before the last one
    ops,            \* the number of operations so far
    hash_in,        \* SpecHash: the two transactions that are hashed
    hash_out,       \* SpecHash: their ids
    cat_in,         \* SpecCat: the transaction that is categorized
    cat_out,        \* SpecCat: its category
    categories_file,\* config/categories.json: NoFile, or the rule set it holds
    rate_limits,    \* the rate_limits table, a set of rows
    api_calls,      \* the API calls recorded so far: account and day, in order
    fn_in,          \* SpecParse: the function that is called and its arguments
    fn_out,         \* SpecParse: what it returned
    runs            \* SpecRace: the runs in progress, by process

vars == <<transactions, accounts, today, last, prev, ops, hash_in, hash_out, cat_in, cat_out,
          categories_file, rate_limits, api_calls, fn_in, fn_out, runs>>

\* the variables of the rule file, the rate limiter, the parsing functions and
\* the interleaved runs
others == <<categories_file, rate_limits, api_calls, fn_in, fn_out, runs>>

Idle == "<idle>"

\* a function that has not been called yet, and one that has returned
NotCalled == [done |-> FALSE]
Returned(value) == [done |-> TRUE, value |-> value]

\* no rule file, an empty rate_limits table, no API call, no function call
\* no run in progress
NoRuns == <<>>

OthersInit ==
    /\ categories_file = NoFile /\ rate_limits = {} /\ api_calls = <<>>
    /\ fn_in = Idle /\ fn_out = NotCalled /\ runs = NoRuns

\* no ids yet
NoIds == <<>>

\* what the record of an operation keeps of an import's result
Summary(result) ==
    IF ~result.success THEN NoResult
    ELSE [success |-> TRUE, bank_format |-> result.bank_format,
          total_rows |-> result.total_rows, imported |-> result.imported,
          duplicates |-> result.duplicates, error_count |-> result.error_count,
          errors |-> result.errors,
          transactions |-> [i \in DOMAIN result.transactions |-> result.transactions[i].id]]

NoOp ==
    [op |-> "none", request |-> 0, account_id |-> "", arg |-> <<>>, raised |-> NoError,
     result |-> NoResult, added |-> 0, before |-> [transactions |-> {}, accounts |-> {}]]

\* the number of transactions stored for an account
account_count(table, account_id) == Cardinality({t \in table : t.account_id = account_id})

\* the record of an operation, from the tables before and after it
Record(op, request, account_id, arg, raised, result, after) ==
    [op |-> op, request |-> request, account_id |-> account_id, arg |-> arg,
     raised |-> raised, result |-> result,
     added |-> account_count(after, account_id) - account_count(transactions, account_id),
     before |-> [transactions |-> transactions, accounts |-> accounts]]

\* what is kept of an operation once another one has followed it
Forget(record) == [record EXCEPT !.before = NoOp.before]

Init ==
    /\ transactions = {}
    /\ accounts = {}
    /\ today = FirstDay
    /\ last = NoOp
    /\ prev = NoOp
    /\ ops = 0
    /\ hash_in = Idle /\ hash_out = NoIds /\ cat_in = Idle /\ cat_out = Idle
    /\ OthersInit

\* finance.py import: import_csv(content, account_id, None, format, 'EUR', filename)
ImportCsv(r, a) ==
    /\ ops < MaxOps
    /\ LET returned(out) ==
               /\ transactions' = out.transactions
               /\ accounts' = out.accounts
               /\ last' = Record("import_csv", r, a, <<>>, out.raised, Summary(out.result),
                                 out.transactions)
       IN  returned(import_csv(transactions, accounts, Plans[r][a], a, None, "EUR", today))
    /\ prev' = Forget(last)
    /\ ops' = ops + 1
    /\ UNCHANGED <<today, hash_in, hash_out, cat_in, cat_out, others>>

\* finance.py categorize <transaction_id> <category>
SetTransactionCategory(transaction_id, category) ==
    /\ ops < MaxOps
    /\ LET returned(out) ==
               /\ transactions' = out.transactions
               /\ last' = Record("set_transaction_category", 0, "",
                                 <<transaction_id, category>>, NoError,
                                 [success |-> out.success], out.transactions)
       IN  returned(set_transaction_category(transactions, transaction_id, category))
    /\ prev' = Forget(last)
    /\ ops' = ops + 1
    /\ UNCHANGED <<accounts, today, hash_in, hash_out, cat_in, cat_out, others>>

\* categorize.py auto_categorize_recent()
AutoCategorizeRecent ==
    /\ ops < MaxOps
    /\ LET returned(out) ==
               /\ transactions' = out.transactions
               /\ last' = Record("auto_categorize_recent", 0, "", <<>>, NoError,
                                 [success |-> TRUE, count |-> out.count], out.transactions)
       IN  returned(auto_categorize_recent(transactions, today, DefaultDays))
    /\ prev' = Forget(last)
    /\ ops' = ops + 1
    /\ UNCHANGED <<accounts, today, hash_in, hash_out, cat_in, cat_out, others>>

\* finance.py account remove, confirmed: delete_csv_account(account['id'])
DeleteCsvAccount(a) ==
    /\ ops < MaxOps
    /\ \E acc \in accounts : acc.id = a /\ acc.institution_id = "csv_import"
    /\ LET returned(out) ==
               /\ transactions' = out.transactions
               /\ accounts' = out.accounts
               /\ last' = Record("delete_csv_account", 0, a, <<>>, NoError,
                                 [success |-> out.success], out.transactions)
       IN  returned(delete_csv_account(transactions, accounts, a, TRUE))
    /\ prev' = Forget(last)
    /\ ops' = ops + 1
    /\ UNCHANGED <<today, hash_in, hash_out, cat_in, cat_out, others>>

\* the calendar moves on to the next day
AdvanceDay ==
    /\ ops < MaxOps
    /\ today' = today + 1
    /\ ops' = ops + 1
    /\ UNCHANGED <<transactions, accounts, last, prev, hash_in, hash_out, cat_in, cat_out, others>>

\* the ids the user can type: the first eight characters of a stored id, as
\* the transaction list shows them, its first character alone, one that
\* matches nothing, and nothing at all
TypedIds ==
    {Take(t.id, 8) : t \in transactions} \cup {Take(t.id, 1) : t \in transactions}
        \cup {"0000", ""}

Next ==
    \/ \E r \in DOMAIN Requests, a \in AccountIds : ImportCsv(r, a)
    \/ \E transaction_id \in TypedIds, category \in UserCategories :
           SetTransactionCategory(transaction_id, category)
    \/ AutoCategorizeRecent
    \/ \E a \in AccountIds : DeleteCsvAccount(a)
    \/ AdvanceDay

Spec == Init /\ [][Next]_vars

(***************************************************************************)
(* create_transaction_hash on its own: two transactions are hashed         *)
(***************************************************************************)

HashDates == {"2025-01-04", "2025-01-05"}
HashAmounts == {Num(0 - 45000), Num(0 - 45004), Num(0 - 45010)}
HashDescriptions == {"Migros Zurich", " migros   ZURICH ", "Migros Zurich AG", ""}

\* import_csv takes any text as account id: two ids that are not of finance.py's making
HashInputs ==
    [account_id : AccountIds, booking_date : HashDates, amount : HashAmounts,
     description : HashDescriptions]
    \cup {[account_id |-> "A", booking_date |-> "2025-01-04", amount |-> Num(0 - 45000),
           description |-> "2025-01-04|-45.00|x"],
          [account_id |-> "A|2025-01-04|-45.00", booking_date |-> "2025-01-04",
           amount |-> Num(0 - 45000), description |-> "x"]}

InitHash ==
    /\ transactions = {} /\ accounts = {} /\ today = FirstDay
    /\ last = NoOp /\ prev = NoOp /\ ops = 0
    /\ hash_in \in HashInputs \X HashInputs
    /\ hash_out = NoIds
    /\ cat_in = Idle /\ cat_out = Idle
    /\ OthersInit

HashPair ==
    /\ hash_out = NoIds
    /\ hash_out' = [i \in 1..2 |->
                       create_transaction_hash(hash_in[i].account_id, hash_in[i].booking_date,
                                               hash_in[i].amount, hash_in[i].description)]
    /\ UNCHANGED <<transactions, accounts, today, last, prev, ops, hash_in, cat_in, cat_out, others>>

NextHash == HashPair

SpecHash == InitHash /\ [][NextHash]_vars

(***************************************************************************)
(* categorize_transaction on its own, under the default rule set           *)
(***************************************************************************)

CatCreditors == {"", "MIGROS ZURICH", "Manor Amazon"}
CatDescriptions == {"", "monthly fee", "bank fee"}
CatAmounts == {Num(0 - 3000), Num(0 - 45000), Num(2500000), Num(0 - 1500000), NoAmount}
CatDates == {"2025-01-04", "2025-01-06"}
CatCodes == {None, "5812"}
CatSources == {<<"health", "user">>, <<None, "pending">>}

CatInputs ==
    {[creditor_name |-> c, debtor_name |-> None, description |-> d, amount |-> a,
      booking_date |-> b, mcc_code |-> m, category |-> s[1], category_source |-> s[2]] :
        c \in CatCreditors, d \in CatDescriptions, a \in CatAmounts, b \in CatDates,
        m \in CatCodes, s \in CatSources}

InitCat ==
    /\ transactions = {} /\ accounts = {} /\ today = FirstDay
    /\ last = NoOp /\ prev = NoOp /\ ops = 0
    /\ hash_in = Idle /\ hash_out = NoIds
    /\ cat_in \in CatInputs
    /\ cat_out = Idle
    /\ OthersInit

Categorize ==
    /\ cat_out = Idle
    /\ cat_out' = categorize_transaction(cat_in, get_default_categories)
    /\ UNCHANGED <<transactions, accounts, today, last, prev, ops, hash_in, hash_out, cat_in, others>>

NextCat == Categorize

SpecCat == InitCat /\ [][NextCat]_vars

(***************************************************************************)
(* categorize_transaction on transactions that no rule and no merchant     *)
(* category code decides (the amount and weekend heuristics), and on       *)
(* records with null and missing fields                                    *)
(***************************************************************************)

\* records no rule and no code decides: texts no category matches, amounts
\* on both sides of every threshold, booking dates on and off the weekend
HeurInputs ==
    {[creditor_name |-> "", debtor_name |-> None, description |-> d, amount |-> a,
      booking_date |-> b, mcc_code |-> m, category |-> None, category_source |-> "pending"] :
        d \in {"", "fee", "gebühr", "charge"},
        a \in {Num(1000010), Num(1000000), Num(10), Num(0), Num(0 - 4990), Num(0 - 5000),
               Num(0 - 19990), Num(0 - 20000), Num(0 - 150000), Num(0 - 150010),
               Num(0 - 1000000), Num(0 - 1000010)},
        b \in {"2025-01-04", "2025-01-05", "2025-01-06", "2025-01-10",
               "2025-01-04T10:30:00", "2025-02-30", "", None},
        m \in {None, Missing, "", "9999"}}

\* records whose fields hold a value, hold null, or are not there at all
FieldInputs ==
    {[creditor_name |-> c, debtor_name |-> c, description |-> d, amount |-> a,
      booking_date |-> b, mcc_code |-> m, category |-> s[1], category_source |-> s[2]] :
        c \in {"MIGROS ZURICH", None, Missing},
        d \in {None, Missing},
        a \in {Num(0 - 45000), NaN, NoAmount, MissingAmount},
        b \in {"2025-01-04", None, Missing},
        m \in {"5812", None, Missing},
        s \in {<<None, "pending">>, <<Missing, Missing>>, <<None, None>>,
               <<"dining", "user">>, <<None, "user">>, <<Missing, "user">>}}

InitHeur ==
    /\ transactions = {} /\ accounts = {} /\ today = FirstDay
    /\ last = NoOp /\ prev = NoOp /\ ops = 0
    /\ hash_in = Idle /\ hash_out = NoIds
    /\ cat_in \in HeurInputs \cup FieldInputs
    /\ cat_out = Idle
    /\ OthersInit

NextHeur == Categorize

SpecHeur == InitHeur /\ [][NextHeur]_vars

(***************************************************************************)
(* add_merchant_rule on the rule file (SpecRules)                          *)
(***************************************************************************)

\* a rule file written by hand: a category without 'patterns', one with a pattern
CustomRules ==
    [categories |-> <<[name |-> "dining", keywords |-> <<"cafe">>],
                      [name |-> "pets", keywords |-> <<>>, patterns |-> <<"(?i).*vet.*">>]>>,
     mcc_mappings |-> <<>>]

\* the record of a call that is not an import: its arguments, what it returned
\* and the state it started from
Call(op, arg, result, before) == [op |-> op, arg |-> arg, result |-> result, before |-> before]

InitRules ==
    /\ transactions = {} /\ accounts = {} /\ today = FirstDay
    /\ last = NoOp /\ prev = NoOp /\ ops = 0
    /\ hash_in = Idle /\ hash_out = NoIds /\ cat_in = Idle /\ cat_out = Idle
    /\ categories_file \in {NoFile, CustomRules, CorruptFile}
    /\ rate_limits = {} /\ api_calls = <<>> /\ fn_in = Idle /\ fn_out = NotCalled /\ runs = NoRuns

AddMerchantRule(merchant_pattern, category) ==
    /\ ops < MaxOps
    /\ LET returned(out) ==
               /\ categories_file' = out.file
               /\ last' = Call("add_merchant_rule", <<merchant_pattern, category>>,
                               out.result, categories_file)
        IN  returned(add_merchant_rule(categories_file, merchant_pattern, category))
    /\ prev' = last
    /\ ops' = ops + 1
    /\ UNCHANGED <<transactions, accounts, today, hash_in, hash_out, cat_in, cat_out,
                   rate_limits, api_calls, fn_in, fn_out, runs>>

NextRules ==
    \E merchant_pattern \in {"vet", "a.b", "monthly", None},
       category \in {"dining", "Dining", "pets", "subscriptions", "nosuch", None} :
        AddMerchantRule(merchant_pattern, category)

SpecRules == InitRules /\ [][NextRules]_vars

(***************************************************************************)
(* categorize_transaction with the rule file add_merchant_rule has written *)
(* (SpecMatch)                                                             *)
(***************************************************************************)

\* load_categories: the rule set of the rule file, the default one when there
\* is no file
load_categories(file) == IF file = NoFile THEN get_default_categories ELSE file

\* the substrings and the category names rules are added with
MatchSubstrings == {"vet", "A.B", "Migros", "monthly", CapitalIWithDot \o "stanbul"}
MatchCategories == {"dining", "Pets", "subscriptions", "nosuch"}

\* transactions to categorize: texts that hold the substrings, in the same and
\* in another case, one that differs from 'a.b' in the dot, one under a
\* user's category
MatchInputs ==
    {[creditor_name |-> "", debtor_name |-> None, description |-> d,
      amount |-> Num(0 - 45000), booking_date |-> "2025-01-06", mcc_code |-> None,
      category |-> None, category_source |-> "pending"] :
        d \in {"VET Clinic Bern", "migros zurich", "Shop a.b", "Shop axb", "Monthly cafe",
               CapitalIWithDot \o "stanbul Bazaar"}}
    \cup {[creditor_name |-> "", debtor_name |-> None, description |-> "Vet Clinic Bern",
            amount |-> Num(0 - 45000), booking_date |-> "2025-01-06", mcc_code |-> None,
            category |-> "health", category_source |-> "user"]}

InitMatch ==
    /\ transactions = {} /\ accounts = {} /\ today = FirstDay
    /\ last = NoOp /\ prev = NoOp /\ ops = 0
    /\ hash_in = Idle /\ hash_out = NoIds /\ cat_in = Idle /\ cat_out = Idle
    /\ categories_file \in {NoFile, CustomRules}
    /\ rate_limits = {} /\ api_calls = <<>> /\ fn_in = Idle /\ fn_out = NotCalled /\ runs = NoRuns

\* the first add_merchant_rule call on the rule file
AddFirstRule(merchant_pattern, category) ==
    /\ last = NoOp
    /\ AddMerchantRule(merchant_pattern, category)

\* categorize_transaction(transaction), which loads the rule file
CategorizeWithRules(transaction) ==
    /\ last.op = "add_merchant_rule"
    /\ cat_out = Idle
    /\ cat_in' = transaction
    /\ cat_out' = categorize_transaction(transaction, load_categories(categories_file))
    /\ UNCHANGED <<transactions, accounts, today, last, prev, ops, hash_in, hash_out, others>>

NextMatch ==
    \/ \E merchant_pattern \in MatchSubstrings, category \in MatchCategories :
           AddFirstRule(merchant_pattern, category)
    \/ \E transaction \in MatchInputs : CategorizeWithRules(transaction)

SpecMatch == InitMatch /\ [][NextMatch]_vars

(***************************************************************************)
(* The rate limiter (SpecRate)                                             *)
(***************************************************************************)

\* the number of rate limiter operations and day changes of a behaviour
MaxCalls == 6

InitRate ==
    /\ transactions = {} /\ accounts = {} /\ today = FirstDay
    /\ last = NoOp /\ prev = NoOp /\ ops = 0
    /\ hash_in = Idle /\ hash_out = NoIds /\ cat_in = Idle /\ cat_out = Idle
    /\ OthersInit

CheckRateLimit(account_id) ==
    /\ ops < MaxCalls
    /\ LET returned(out) ==
               /\ rate_limits' = out.table
               /\ last' = Call("check_rate_limit", <<account_id, "transactions">>,
                               out.result, rate_limits)
        IN  returned(check_rate_limit(rate_limits, account_id, "transactions", today))
    /\ prev' = last
    /\ ops' = ops + 1
    /\ UNCHANGED <<transactions, accounts, today, hash_in, hash_out, cat_in, cat_out,
                   categories_file, api_calls, fn_in, fn_out, runs>>

RecordApiCall(account_id) ==
    /\ ops < MaxCalls
    /\ rate_limits' = record_api_call(rate_limits, account_id, "transactions", today)
    /\ api_calls' = Append(api_calls, <<account_id, today>>)
    /\ last' = Call("record_api_call", <<account_id, "transactions">>, None, rate_limits)
    /\ prev' = last
    /\ ops' = ops + 1
    /\ UNCHANGED <<transactions, accounts, today, hash_in, hash_out, cat_in, cat_out,
                   categories_file, fn_in, fn_out, runs>>

\* midnight passes
NewDay ==
    /\ ops < MaxCalls
    /\ today' = today + 1
    /\ last' = Call("midnight", <<>>, None, rate_limits)
    /\ prev' = last
    /\ ops' = ops + 1
    /\ UNCHANGED <<transactions, accounts, hash_in, hash_out, cat_in, cat_out,
                   categories_file, rate_limits, api_calls, fn_in, fn_out, runs>>

NextRate ==
    \/ \E account_id \in AccountIds : CheckRateLimit(account_id)
    \/ \E account_id \in AccountIds : RecordApiCall(account_id)
    \/ NewDay

SpecRate == InitRate /\ [][NextRate]_vars

(***************************************************************************)
(* parse_amount, parse_date and detect_bank_format on their own (SpecParse) *)
(***************************************************************************)

\* amount cells with the decimal separator of the format
AmountInputs ==
    {[fn |-> "parse_amount", value |-> v, decimal_separator |-> sep] :
        v \in {"100.50", "-50.00", "(100.00)", "EUR 50.00", "50.00 chf", "£50.00", "50.00$",
               "50.00CR", "50.00DR", "50.00 dr", "12.00cr", "$(3.00)", "+7", " 42 ",
               "", "   ", "abc", "USD", "-", "nan", "inf", "-Infinity"},
        sep \in {".", ","}}
    \cup {[fn |-> "parse_amount", value |-> v, decimal_separator |-> ","] :
             v \in {"1.234,56", "12,5", "1.234.567,89", "(1.234,56)", "-0,99 EUR", "1,2,3"}}
    \cup {[fn |-> "parse_amount", value |-> v, decimal_separator |-> "."] :
             v \in {"1,234.56", "1,234,567.89", "(1,234.56)", "GBP1,000", "1.2.3"}}

\* date cells with the date formats of the format
DateInputs ==
    {[fn |-> "parse_date", value |-> v, formats |-> f] :
        v \in {"01.01.2025", "2025-01-15", "15/01/2025", "01/02/2025", " 01/02/2025 ",
               "13/01/2025", "31/02/2025", "1.1.2025", "2025-01-15T10:30:00Z",
               "2025-01-15 10:30", "", "   ", "not a date"},
        f \in {<<"%d.%m.%Y", "%Y-%m-%d", "%d/%m/%Y">>, <<"%d/%m/%Y", "%m/%d/%Y">>,
               <<"%m/%d/%Y", "%d/%m/%Y">>, <<>>}}

\* files, by their header row, without a file name
DetectInputs ==
    {[fn |-> "detect_bank_format", csv_content |-> <<h, "x">>, filename |-> None] :
        h \in {"Date,Amount,Description", "Date;Amount", "Date\tAmount", " DATE , amount ",
               "Buchungstag;Betrag;Verwendungszweck", "Date,Description", "Date,foo",
               "foo,Amount", "foo,Description", "a,b", "a;b;c", "a\tb", "Date", "",
               "Date,Amount,x;Buchungstag;Betrag;Verwendungszweck;y",
               "Date,Amount;Buchungstag;Betrag;Verwendungszweck",
               "Date,Description;Datum;Betrag;Text"}}

InitParse ==
    /\ transactions = {} /\ accounts = {} /\ today = FirstDay
    /\ last = NoOp /\ prev = NoOp /\ ops = 0
    /\ hash_in = Idle /\ hash_out = NoIds /\ cat_in = Idle /\ cat_out = Idle
    /\ categories_file = NoFile /\ rate_limits = {} /\ api_calls = <<>>
    /\ fn_in \in AmountInputs \cup DateInputs \cup DetectInputs
    /\ fn_out = NotCalled
    /\ runs = NoRuns

ParseAmount ==
    /\ fn_out = NotCalled /\ fn_in.fn = "parse_amount"
    /\ fn_out' = Returned(parse_amount(fn_in.value, fn_in.decimal_separator))
    /\ UNCHANGED <<transactions, accounts, today, last, prev, ops, hash_in, hash_out, cat_in,
                   cat_out, categories_file, rate_limits, api_calls, fn_in, runs>>

ParseDate ==
    /\ fn_out = NotCalled /\ fn_in.fn = "parse_date"
    /\ fn_out' = Returned(parse_date(fn_in.value, fn_in.formats))
    /\ UNCHANGED <<transactions, accounts, today, last, prev, ops, hash_in, hash_out, cat_in,
                   cat_out, categories_file, rate_limits, api_calls, fn_in, runs>>

DetectBankFormat ==
    /\ fn_out = NotCalled /\ fn_in.fn = "detect_bank_format"
    /\ fn_out' = Returned(detect_bank_format(fn_in.csv_content, fn_in.filename))
    /\ UNCHANGED <<transactions, accounts, today, last, prev, ops, hash_in, hash_out, cat_in,
                   cat_out, categories_file, rate_limits, api_calls, fn_in, runs>>

NextParse == ParseAmount \/ ParseDate \/ DetectBankFormat

SpecParse == InitParse /\ [][NextParse]_vars

(***************************************************************************)
(* import_csv and auto_categorize_recent step by step, as separate         *)
(* processes run them against the one database file (SpecRace).  Every     *)
(* "with get_db()" block is a connection of its own: what a run has read   *)
(* in one block is not protected while it works towards the next.          *)
(***************************************************************************)

\* the processes
Procs == {1, 2}

\* the number of runs and overrides of a behaviour
MaxRuns == 3

\* the requests the racing imports work on: FileGeneric and FileRepeats
RaceRequests == {1, 2}

IdleRun == [pc |-> "idle"]

\* a process is free to begin a run
Free(p) == runs[p].pc \in {"idle", "done"}

\* what the race specification leaves alone
raceFrame == <<today, last, prev, hash_in, hash_out, cat_in, cat_out, categories_file,
               rate_limits, api_calls, fn_in, fn_out>>

InitRace ==
    /\ transactions = {} /\ accounts = {} /\ today = FirstDay
    /\ last = NoOp /\ prev = NoOp /\ ops = 0
    /\ hash_in = Idle /\ hash_out = NoIds /\ cat_in = Idle /\ cat_out = Idle
    /\ categories_file = NoFile /\ rate_limits = {} /\ api_calls = <<>>
    /\ fn_in = Idle /\ fn_out = NotCalled
    /\ runs = [p \in Procs |-> IdleRun]

\* import_csv up to the end of its row loop: the account's ids are loaded in
\* a connection of their own and the rows are checked against them
ImportLoadAndParse(p, r, a) ==
    /\ ops < MaxRuns /\ Free(p)
    /\ Plans[r][a].raised = NoError
    /\ LET loaded(loop) ==
               runs' = [runs EXCEPT ![p] =
                           [pc |-> "loaded", op |-> "import_csv", request |-> r,
                            account_id |-> a, transactions |-> loop.transactions,
                            duplicates |-> Len(loop.duplicates),
                            error_count |-> Len(loop.errors)]]
       IN  loaded(row_loop(Plans[r][a].outcomes, 1,
                           [transactions |-> <<>>, duplicates |-> <<>>, errors |-> <<>>,
                            existing_hashes |-> existing_ids(transactions, a)]))
    /\ ops' = ops + 1
    /\ UNCHANGED <<transactions, accounts, raceFrame>>

\* import_csv from store_csv_account on: the account is stored, every listed
\* transaction goes through INSERT OR IGNORE and is counted, the result is
\* returned
ImportStore(p) ==
    /\ runs[p].pc = "loaded"
    /\ LET stored(run, table) ==
               /\ transactions' = table
               /\ accounts' = store_csv_account(accounts, run.account_id,
                                   "CSV Import - " \o FormatOf(ChosenFormats[run.request]).name,
                                   "EUR", today)
               /\ runs' = [runs EXCEPT ![p] =
                               [pc |-> "done", op |-> "import_csv", request |-> run.request,
                                account_id |-> run.account_id,
                                imported |-> Len(run.transactions),
                                duplicates |-> run.duplicates,
                                error_count |-> run.error_count,
                                added |-> Cardinality(table) - Cardinality(transactions)]]
       IN  stored(runs[p], store_loop(transactions, runs[p].transactions, 1,
                                      runs[p].account_id, "EUR"))
    /\ UNCHANGED <<ops, raceFrame>>

\* auto_categorize_recent up to the call of update_transaction_categories:
\* the uncategorized recent transactions are read and categorized
AutoReadAndCategorize(p) ==
    /\ ops < MaxRuns /\ Free(p)
    /\ LET read(recent) ==
               runs' = [runs EXCEPT ![p] =
                           [pc |-> "read", op |-> "auto_categorize_recent",
                            read |-> {t.id : t \in recent},
                            category_updates |->
                                {u \in {<<t.id, categorize(t)>> : t \in recent} :
                                    u[2] \notin {None, "", "other"}},
                            overridden |-> {}]]
       IN  read(get_recent_transactions(transactions, today, DefaultDays))
    /\ ops' = ops + 1
    /\ UNCHANGED <<transactions, accounts, raceFrame>>

\* auto_categorize_recent from update_transaction_categories on
AutoUpdate(p) ==
    /\ runs[p].pc = "read"
    /\ transactions' = IF runs[p].category_updates = {} THEN transactions
                       ELSE update_transaction_categories(transactions,
                                                          runs[p].category_updates)
    /\ runs' = [runs EXCEPT ![p] =
                    [pc |-> "done", op |-> "auto_categorize_recent",
                     count |-> Cardinality(runs[p].category_updates),
                     overridden |-> runs[p].overridden]]
    /\ UNCHANGED <<accounts, ops, raceFrame>>

\* finance.py categorize <transaction_id> <category>, in one connection; every
\* run that has read a transaction as uncategorized and has not yet updated
\* notes the override of it
UserOverride(transaction_id, category) ==
    /\ ops < MaxRuns
    /\ LET returned(out, hit) ==
               /\ hit # {}
               /\ transactions' = out.transactions
               /\ runs' = [p \in Procs |->
                               IF runs[p].pc = "read"
                               THEN [runs[p] EXCEPT !.overridden =
                                        @ \cup {<<id, category>> : id \in hit \cap runs[p].read}]
                               ELSE runs[p]]
       IN  returned(set_transaction_category(transactions, transaction_id, category),
                    {t.id : t \in {u \in transactions :
                                      sql_like(u.id, transaction_id \o "%")}})
    /\ ops' = ops + 1
    /\ UNCHANGED <<accounts, raceFrame>>

NextRace ==
    \/ \E p \in Procs, r \in RaceRequests, a \in AccountIds : ImportLoadAndParse(p, r, a)
    \/ \E p \in Procs : ImportStore(p)
    \/ \E p \in Procs : AutoReadAndCategorize(p)
    \/ \E p \in Procs : AutoUpdate(p)
    \/ \E transaction_id \in {Take(t.id, 8) : t \in transactions},
          category \in UserCategories : UserOverride(transaction_id, category)

SpecRace == InitRace /\ [][NextRace]_vars

(***************************************************************************)
(* Properties of the import pipeline (Spec)                                *)
(***************************************************************************)

\* the last two operations were import_csv runs of the same request into the
\* same account, and neither raised
SameImportTwice ==
    /\ last.op = "import_csv" /\ prev.op = "import_csv"
    /\ last.request = prev.request /\ last.account_id = prev.account_id
    /\ last.raised = NoError /\ prev.raised = NoError

\* C1: importing the identical file a second time into the same account, with
\* no other operation in between, stores no new transaction: the account has
\* as many stored transactions after the second run as before it.
T1_ReimportStoresNothing ==
    (/\ last.op = "import_csv" /\ prev.op = "import_csv"
     /\ last.request = prev.request /\ last.account_id = prev.account_id)
    => account_count(transactions, last.account_id)
           = account_count(last.before.transactions, last.account_id)

\* a file whose first import stored rows has been imported a second time
W1_Reimported == SameImportTwice /\ prev.added > 0 /\ prev.result.imported > 0

\* C2, as stated: the second run of an identical import reports imported = 0
\* and duplicates = N, the first run's imported count.
X2_SecondRunReportsN ==
    SameImportTwice
    => /\ last.result.imported = 0
       /\ last.result.duplicates = prev.result.imported

\* C2, amended: when the first run reports imported = N and duplicates = D and
\* adds S transactions to the account, the second run of the identical import
\* reports imported = N - S and duplicates = D + S.
T2_SecondRunCounts ==
    SameImportTwice
    => /\ last.result.imported = prev.result.imported - prev.added
       /\ last.result.duplicates = prev.result.duplicates + prev.added

\* the first run stored a row and met a repeat of it in the same file; the
\* second run counts both as duplicates
W2_FileRepeatsARow ==
    /\ SameImportTwice
    /\ prev.added > 0 /\ prev.result.duplicates > 0
    /\ last.result.duplicates = prev.result.imported + prev.result.duplicates

\* the rows of the last import that reached the duplicate check, by position
AcceptedRows ==
    LET outcomes == Plans[last.request][last.account_id].outcomes
    IN  {i \in DOMAIN outcomes : outcomes[i].kind = "txn"}

RowId(i) == Plans[last.request][last.account_id].outcomes[i].id

\* the id of row i was stored for the account before the last import, or an
\* earlier row of the file produced it
KnownBefore(i) ==
    \/ RowId(i) \in existing_ids(last.before.transactions, last.account_id)
    \/ \E j \in AcceptedRows : j < i /\ RowId(j) = RowId(i)

\* C3, as stated: no two stored transactions have the same id; after an
\* import, every accepted row whose id was already known is counted as a
\* duplicate and not stored, and every other accepted row is stored exactly
\* once and its id is in the account's known set.
X3_AcceptedRowsStoredOnce ==
    /\ \A t, u \in transactions : t.id = u.id => t = u
    /\ (last.op = "import_csv" /\ last.raised = NoError)
       => /\ last.result.duplicates = Cardinality({i \in AcceptedRows : KnownBefore(i)})
          /\ \A i \in AcceptedRows :
                IF KnownBefore(i)
                THEN \A t \in transactions \ last.before.transactions :
                         t.id = RowId(i) => \E j \in AcceptedRows : j < i /\ RowId(j) = RowId(i)
                ELSE /\ Cardinality({t \in transactions : t.id = RowId(i)}) = 1
                     /\ RowId(i) \in existing_ids(transactions, last.account_id)
                     /\ RowId(i) \notin existing_ids(last.before.transactions, last.account_id)

\* C5: a transaction whose category_source is 'user' is left as it is, category
\* and category_source, by every run of auto_categorize_recent, whatever
\* imports, overrides and runs came before.
T5_UserCategoryKept ==
    last.op = "auto_categorize_recent"
    => \A t \in last.before.transactions : t.category_source = "user" => t \in transactions

\* the engine ran and categorized a transaction while another one, recent
\* enough to be looked at, carried a category from the user
W5_EngineRanOverUserCategory ==
    /\ last.op = "auto_categorize_recent"
    /\ last.result.count > 0
    /\ \E t \in last.before.transactions :
           /\ t.category_source = "user"
           /\ text_ge(t.booking_date, sql_date_now_minus(today, DefaultDays))
           /\ categorize([t EXCEPT !.category = None, !.category_source = "pending"])
                  \notin {t.category, "other"}

\* the rows of the last import's file, by position, by what the row loop makes of them
RowsOfKind(kind) ==
    LET outcomes == Plans[last.request][last.account_id].outcomes
    IN  {i \in DOMAIN outcomes : outcomes[i].kind = kind}

\* a valid row: its date parses and its amount is a number other than zero
ValidRows ==
    LET outcomes == Plans[last.request][last.account_id].outcomes
    IN  {i \in RowsOfKind("txn") : outcomes[i].amount.k = "num"}

\* the last operation imported a file that consists of valid rows with
\* pairwise distinct ids and of rows with unparseable dates
ImportedValidAndBadDateRows ==
    /\ last.op = "import_csv" /\ last.raised = NoError
    /\ ValidRows \cup RowsOfKind("baddate")
           = DOMAIN Plans[last.request][last.account_id].outcomes
    /\ \A i, j \in ValidRows : RowId(i) = RowId(j) => i = j

\* every row with an unparseable date has exactly one entry in the error
\* list, which names its row number; no such row is stored
OneErrorPerBadDate ==
    LET outcomes == Plans[last.request][last.account_id].outcomes
    IN  /\ last.result.error_count = Cardinality(RowsOfKind("baddate"))
        /\ Len(last.result.errors) = last.result.error_count
        /\ \A i \in RowsOfKind("baddate") :
               Cardinality({e \in DOMAIN last.result.errors :
                   StartsWith(last.result.errors[e],
                              "Row " \o NatStr(outcomes[i].row) \o ":")}) = 1

\* every valid row is in the store
ValidRowsPersisted ==
    \A i \in ValidRows :
        \E t \in transactions : t.id = RowId(i) /\ t.account_id = last.account_id

\* C6, as stated: for a file of k valid rows (distinct, non-zero amounts) and
\* m rows with unparseable dates, import_csv reports imported = k and
\* error_count = m with one error per bad row, and the k rows are persisted.
X6_ImportedIsK ==
    ImportedValidAndBadDateRows
    => /\ last.result.imported = Cardinality(ValidRows)
       /\ OneErrorPerBadDate
       /\ ValidRowsPersisted

\* C6, amended: the same, for a file none of whose valid rows is already
\* stored for the account.
T6_ImportedIsKWhenNew ==
    (/\ ImportedValidAndBadDateRows
     /\ \A i \in ValidRows :
            RowId(i) \notin existing_ids(last.before.transactions, last.account_id))
    => /\ last.result.imported = Cardinality(ValidRows)
       /\ OneErrorPerBadDate
       /\ ValidRowsPersisted

\* a file with valid rows on both sides of a row with an unparseable date was
\* imported into an account that had none of them
W6_BadDateAmongValidRows ==
    /\ ImportedValidAndBadDateRows
    /\ \E b \in RowsOfKind("baddate") : \E i, j \in ValidRows : i < b /\ b < j
    /\ last.added = Cardinality(ValidRows)

\* C7: import_csv raises before any row is processed exactly when the file has
\* no header row or the header has no date column or no amount column of the
\* format, and then the stored transactions and accounts are what they were.
T7_StructuralErrorLeavesStore ==
    last.op = "import_csv"
    => LET csv_content == Requests[last.request].csv_content
           config == FormatOf(ChosenFormats[last.request])
           headers == import_headers(csv_content, config)
           has(candidates) ==
               \E c \in DOMAIN candidates, h \in DOMAIN headers :
                   Lower(Strip(headers[h])) = Lower(Strip(candidates[c]))
       IN  /\ (last.raised # NoError)
                  <=> (headers = <<>> \/ ~has(config.date_column) \/ ~has(config.amount_column))
           /\ (last.raised # NoError)
                  => /\ transactions = last.before.transactions
                     /\ accounts = last.before.accounts
                     /\ last.result = NoResult

\* a file with a header and a data row but no amount column was turned down
\* while the store held transactions and accounts
W7_TurnedDownWithDataRows ==
    /\ last.op = "import_csv" /\ last.raised # NoError
    /\ Len(Requests[last.request].csv_content) > 1
    /\ last.before.transactions # {} /\ last.before.accounts # {}

(***************************************************************************)
(* Properties of create_transaction_hash (SpecHash)                        *)
(***************************************************************************)

\* a text with every run of whitespace collapsed to one space
RECURSIVE CollapseRuns(_)
CollapseRuns(s) ==
    IF s = "" THEN ""
    ELSE IF IsSpace(Ch(s, 1))
    THEN (IF Len(s) > 1 /\ IsSpace(Ch(s, 2)) THEN CollapseRuns(Tail1(s))
          ELSE " " \o CollapseRuns(Tail1(s)))
    ELSE Ch(s, 1) \o CollapseRuns(Tail1(s))

\* two transactions agree on account id, booking date, amount to two decimals,
\* and description after lowercasing, trimming and collapsing whitespace runs
SameLogicalTransaction(a, b) ==
    /\ a.account_id = b.account_id
    /\ a.booking_date = b.booking_date
    /\ format_2f(a.amount) = format_2f(b.amount)
    /\ CollapseRuns(Strip(Lower(a.description))) = CollapseRuns(Strip(Lower(b.description)))

\* C4, as stated: create_transaction_hash gives two transactions the same id
\* if and only if they agree on the four normalized fields.
X4_SameIdIffSameFields ==
    hash_out # NoIds
    => ((hash_out[1] = hash_out[2]) <=> SameLogicalTransaction(hash_in[1], hash_in[2]))

(***************************************************************************)
(* Properties of categorize_transaction (SpecCat)                          *)
(***************************************************************************)

\* the text the rules are matched against
CombinedText ==
    Lower(TextOr(cat_in.creditor_name) \o " " \o TextOr(cat_in.debtor_name) \o " "
          \o TextOr(cat_in.description))

DefaultRules == get_default_categories.categories

\* the positions, in rule-set order, of the categories with a pattern or keyword that matches
MatchingRules ==
    {i \in DOMAIN DefaultRules :
        \/ \E j \in DOMAIN DefaultRules[i].patterns :
               re_search(DefaultRules[i].patterns[j], CombinedText)
        \/ \E j \in DOMAIN DefaultRules[i].keywords :
               Contains(CombinedText, Lower(DefaultRules[i].keywords[j]))}

\* the step "merchant text match": the first matching category, None if none
TextStep ==
    LET matching == MatchingRules
    IN  IF matching = {} THEN None
        ELSE DefaultRules[CHOOSE i \in matching : \A j \in matching : i <= j].name

\* the step "merchant category code": the category the code is mapped to, None if none
CodeStep ==
    LET codes == {i \in DOMAIN DefaultMccMappings : DefaultMccMappings[i][1] = cat_in.mcc_code}
    IN  IF codes = {} THEN None ELSE DefaultMccMappings[CHOOSE i \in codes : TRUE][2]

\* the step "amount heuristic", None if the amount decides nothing
AmountStep ==
    LET v == cat_in.amount.v
        size == IF v < 0 THEN 0 - v ELSE v
    IN  IF v > 1000000 THEN "income"
        ELSE IF v > 0 THEN "transfers"
        ELSE IF size < 5000
        THEN (IF \E w \in {"fee", "gebühr", "charge"} : Contains(CombinedText, w)
              THEN "utilities" ELSE "subscriptions")
        ELSE IF size > 1000000 THEN "housing"
        ELSE None

\* the step "weekday heuristic", None if it does not apply
WeekdayStep ==
    LET v == cat_in.amount.v
        size == IF v < 0 THEN 0 - v ELSE v
    IN  IF /\ fromisoformat(cat_in.booking_date) # NoDate
           /\ weekday(fromisoformat(cat_in.booking_date)) \in {5, 6}
           /\ size >= 20000 /\ size <= 150000
        THEN "dining" ELSE None

\* C8: categorize_transaction returns the outcome of the first applicable step
\* in the order user override, text match, merchant category code, amount
\* heuristic, weekday heuristic, 'other'.  (The heuristics are stated for
\* transactions that have an amount.)
T8_FirstApplicableStep ==
    cat_out # Idle
    => LET text == TextStep
       IN  IF cat_in.category_source = "user" THEN cat_out = cat_in.category
           ELSE IF text # None THEN cat_out = text
           ELSE IF CodeStep # None THEN cat_out = CodeStep
           ELSE IF cat_in.amount.k # "num" THEN TRUE
           ELSE IF AmountStep # None THEN cat_out = AmountStep
           ELSE IF WeekdayStep # None THEN cat_out = WeekdayStep
           ELSE cat_out = "other"

\* a transaction whose text matches a rule and whose code is mapped to another
\* category, with an amount the heuristics would decide, got the text's category
W8_TextBeatsCodeBeatsAmount ==
    /\ cat_out # Idle /\ cat_in.category_source # "user"
    /\ cat_in.amount.k = "num" /\ AmountStep # None /\ AmountStep # CodeStep
    /\ CodeStep # None
    /\ LET text == TextStep IN text # None /\ text # CodeStep /\ cat_out = text

\* C9: when the text matches several categories, the one that comes first in
\* rule-set order is returned, also when it matches by keyword only and a
\* later one by pattern; a creditor 'MIGROS ZURICH' gives 'groceries'.
T9_EarlierCategoryWins ==
    (cat_out # Idle /\ cat_in.category_source # "user")
    => /\ LET matching == MatchingRules
          IN  \A i \in matching : (\A j \in matching : i <= j) => cat_out = DefaultRules[i].name
       /\ cat_in.creditor_name = "MIGROS ZURICH" => cat_out = "groceries"

\* the text matched an earlier category by keyword only and a later one by
\* pattern, and the earlier one was returned
W9_KeywordBeforePattern ==
    /\ cat_out # Idle /\ cat_in.category_source # "user"
    /\ LET matching == MatchingRules
       IN  \E i, k \in matching :
           /\ i < k
           /\ \A j \in matching : i <= j
           /\ \A j \in DOMAIN DefaultRules[i].patterns :
                  ~re_search(DefaultRules[i].patterns[j], CombinedText)
           /\ \E j \in DOMAIN DefaultRules[k].patterns :
                  re_search(DefaultRules[k].patterns[j], CombinedText)
           /\ cat_out = DefaultRules[i].name

\* a transaction without user override, with empty creditor and debtor, amount -3
\* and description "monthly fee" has been categorized
MonthlyFeeCategorized ==
    /\ cat_out # Idle
    /\ cat_in.category_source # "user"
    /\ TextOr(cat_in.creditor_name) = "" /\ TextOr(cat_in.debtor_name) = ""
    /\ cat_in.amount = Num(0 - 3000)
    /\ cat_in.description = "monthly fee"

\* C10, as stated: that transaction is categorized as 'utilities'.
X10_MonthlyFeeIsUtilities == MonthlyFeeCategorized => cat_out = "utilities"

\* C10, amended: that transaction is categorized as 'subscriptions': the text
\* matches the subscriptions pattern for "monthly" before the amount is looked at.
T10_MonthlyFeeIsSubscriptions == MonthlyFeeCategorized => cat_out = "subscriptions"

\* that transaction, with no merchant category code, has been categorized
W10_MonthlyFee == MonthlyFeeCategorized /\ cat_in.mcc_code = None

(***************************************************************************)
(* Properties of the heuristics of categorize_transaction (SpecHeur)       *)
(***************************************************************************)

\* the weekday of a calendar date, 0 for Sunday to 6 for Saturday
DayOfWeek(y, m, d) ==
    LET shift == <<0, 3, 2, 5, 0, 3, 5, 1, 4, 6, 2, 4>>
        yy == IF m < 3 THEN y - 1 ELSE y
    IN  (yy + (yy \div 4) - (yy \div 100) + (yy \div 400) + shift[m] + d) % 7

\* the booking date of the transaction is a date that falls on Saturday or Sunday
BookedOnWeekend ==
    /\ cat_in.booking_date \notin {None, Missing, ""}
    /\ fromisoformat(cat_in.booking_date) # NoDate
    /\ DayOfWeek(NatOf(SubSeq(cat_in.booking_date, 1, 4)),
                 NatOf(SubSeq(cat_in.booking_date, 6, 7)),
                 NatOf(SubSeq(cat_in.booking_date, 9, 10))) \in {0, 6}

\* a transaction without user override, whose text matches no category and
\* whose merchant category code is absent or unmapped, has been categorized
DecidedByHeuristics ==
    /\ cat_out # Idle
    /\ cat_in.category_source # "user"
    /\ cat_in.amount.k = "num"
    /\ MatchingRules = {}
    /\ \A i \in DOMAIN DefaultMccMappings : DefaultMccMappings[i][1] # cat_in.mcc_code

\* C11: such a transaction is 'income' above 1000 and 'transfers' from above 0
\* to 1000; at or below 0, with a the absolute amount, it is 'utilities' for
\* a < 5 with a fee word in the text and 'subscriptions' for a < 5 without,
\* 'housing' for a > 1000, and for 5 <= a <= 1000 it is 'dining' exactly when
\* booked on a Saturday or Sunday with 20 <= a <= 150, else 'other'.
T11_HeuristicTable ==
    DecidedByHeuristics
    => LET v == cat_in.amount.v
           a == IF v < 0 THEN 0 - v ELSE v
           fee == \E w \in {"fee", "gebühr", "charge"} : Contains(CombinedText, w)
       IN  /\ v > 1000000 => cat_out = "income"
           /\ (v > 0 /\ v <= 1000000) => cat_out = "transfers"
           /\ (v <= 0 /\ a < 5000 /\ fee) => cat_out = "utilities"
           /\ (v <= 0 /\ a < 5000 /\ ~fee) => cat_out = "subscriptions"
           /\ (v <= 0 /\ a > 1000000) => cat_out = "housing"
           /\ (v <= 0 /\ a >= 5000 /\ a <= 1000000)
              => /\ cat_out \in {"dining", "other"}
                 /\ cat_out = "dining" <=> (BookedOnWeekend /\ a >= 20000 /\ a <= 150000)

\* an expense of exactly 150 booked on a Sunday, with a fee word as its text
\* and an unmapped merchant category code, came out as 'dining'
W11_WeekendExpenseIsDining ==
    /\ DecidedByHeuristics
    /\ cat_in.amount = Num(0 - 150000) /\ cat_in.booking_date = "2025-01-05"
    /\ cat_in.mcc_code = "9999" /\ cat_in.description = "fee"
    /\ cat_out = "dining"

\* the category labels: the category names of the default rule set, the
\* categories its merchant category codes are mapped to, and the two labels
\* only the heuristics give
CategoryLabels ==
    {DefaultRules[i].name : i \in DOMAIN DefaultRules}
        \cup {DefaultMccMappings[i][2] : i \in DOMAIN DefaultMccMappings}
        \cup {"income", "other"}

\* C12, as stated: categorize_transaction raises nothing and returns a category
\* label for every record, also when creditor, debtor, description, amount,
\* booking date, merchant category code or category is missing or null.
X12_AlwaysACategoryLabel == cat_out # Idle => cat_out \in CategoryLabels

(***************************************************************************)
(* Properties of add_merchant_rule (SpecRules)                             *)
(***************************************************************************)

\* the rule set a rule file holds: what load_categories reads
RuleSetOf(file) == IF file = NoFile THEN get_default_categories ELSE file

\* the positions of the categories of a rule file that a category argument names
Named(file, category) ==
    IF file = CorruptFile \/ category = None THEN {}
    ELSE {i \in DOMAIN RuleSetOf(file).categories :
             RuleSetOf(file).categories[i].name = Lower(category)}

\* how often a pattern is in the pattern list of the i-th category of a rule file
Entries(file, i, pattern) ==
    IF "patterns" \notin DOMAIN file.categories[i] THEN 0
    ELSE Cardinality({k \in DOMAIN file.categories[i].patterns :
                         file.categories[i].patterns[k] = pattern})

\* the last two operations were add_merchant_rule calls with the same
\* substring and the same category, which the rule set had before the first
SameRuleTwice ==
    /\ last.op = "add_merchant_rule" /\ prev.op = "add_merchant_rule"
    /\ last.arg = prev.arg
    /\ last.arg[1] # None
    /\ Named(prev.before, prev.arg[2]) # {}

\* C13: after two add_merchant_rule(s, c) calls with the same substring and
\* an existing category, the pattern of s is exactly once in the pattern list
\* of c, both calls returned True, and the persisted rule set after the second
\* call is the one after the first.
T13_AddMerchantRuleIdempotent ==
    SameRuleTwice
    => /\ prev.result = TRUE /\ last.result = TRUE
       /\ categories_file = last.before
       /\ \A i \in Named(prev.before, prev.arg[2]) :
              (\A j \in Named(prev.before, prev.arg[2]) : i <= j)
              => Entries(categories_file, i, "(?i).*" \o re_escape(last.arg[1]) \o ".*") = 1

\* the substring 'a.b' was added twice, under the name 'Dining', to a category
\* of a hand-written file that had no pattern list: the list holds it once, escaped
W13_AddedTwiceToNewList ==
    /\ SameRuleTwice
    /\ last.arg = <<"a.b", "Dining">>
    /\ "patterns" \notin DOMAIN prev.before.categories[1]
    /\ categories_file.categories[1].patterns = <<"(?i).*a\\.b.*">>

\* C14: add_merchant_rule with a category name that is not in the rule set
\* returns False and leaves the persisted rule set as it was.
T14_UnknownCategoryRefused ==
    (/\ last.op = "add_merchant_rule"
     /\ last.before # CorruptFile
     /\ last.arg[2] # None
     /\ Named(last.before, last.arg[2]) = {})
    => /\ last.result = FALSE
       /\ categories_file = last.before

\* a rule was added, and then a call with an unknown category was refused
W14_RefusedAfterAnAddition ==
    /\ last.op = "add_merchant_rule" /\ prev.op = "add_merchant_rule"
    /\ prev.result = TRUE /\ prev.before # last.before
    /\ last.arg = <<"vet", "nosuch">>
    /\ last.result = FALSE /\ categories_file = last.before

(***************************************************************************)
(* Properties of short rows in the import (Spec)                           *)
(***************************************************************************)

\* the last operation was an import_csv run that returned a result
Imported == last.op = "import_csv" /\ last.raised = NoError

\* the cell of a row in a 0-based column, empty when the row ends before it
CellOr(row, col) == IF col # NoCol /\ col < Len(row) THEN Cell(row, col) ELSE ""

\* what the file of every request holds, read with the chosen format: the
\* columns of the header and, for every data row by its row number (the
\* header is row 1), whether it ends before the date or the amount column, its
\* date, its parsed amount, debit and credit cells and its description cell;
\* no rows when the date or the amount column is missing
RowFacts ==
    LET fact(row, cols, config) ==
            [short |-> Len(row) <= Max(cols.date_col, cols.amount_col),
             date |-> IF Len(row) <= Max(cols.date_col, cols.amount_col) THEN NoDate
                      ELSE parse_date(Strip(Cell(row, cols.date_col)), config.date_formats),
             amount |-> parse_amount(CellOr(row, cols.amount_col), config.decimal_separator),
             debit |-> parse_amount(CellOr(row, cols.debit_col), config.decimal_separator),
             credit |-> parse_amount(CellOr(row, cols.credit_col), config.decimal_separator),
             debit_cell |-> Strip(CellOr(row, cols.debit_col)),
             credit_cell |-> Strip(CellOr(row, cols.credit_col)),
             description_cell |-> Strip(CellOr(row, cols.desc_col))]
        facts(csv_content, cols, config) ==
            [cols |-> cols,
             rows |-> [row_num \in (IF cols.date_col = NoCol \/ cols.amount_col = NoCol
                                    THEN {} ELSE 2..Len(csv_content)) |->
                          fact(csv_row(csv_content[row_num], config.delimiter), cols, config)]]
        read(csv_content, config) ==
            facts(csv_content, import_columns(import_headers(csv_content, config), config),
                  config)
    IN  [r \in DOMAIN Requests |->
            read(Requests[r].csv_content, FormatOf(ChosenFormats[r]))]

\* the columns and the rows of the last import's file
LastCols == RowFacts[last.request].cols
LastRows == RowFacts[last.request].rows

\* the row numbers of the data rows of the last import's file that have no
\* cell in the date column or none in the amount column
ShortRows ==
    IF Imported THEN {row_num \in DOMAIN LastRows : LastRows[row_num].short} ELSE {}

\* the rows of the last import's file, by position, that are long enough and
\* whose date does not parse
BadDateRows == {i \in RowsOfKind("baddate") : i + 1 \notin ShortRows}

\* the last operation imported a file with a data row that is shorter than
\* the date and amount columns need
ImportedShortRow == last.op = "import_csv" /\ last.raised = NoError /\ ShortRows # {}

\* the entries of the last import's error list that name a row number
ErrorsNaming(row_num) ==
    {e \in DOMAIN last.result.errors :
        StartsWith(last.result.errors[e], "Row " \o NatStr(row_num) \o ":")}

\* C19, as stated: a data row shorter than the required column count is
\* skipped, has an entry with its row number in the error list and is counted
\* in error_count, and the import continues with the next row.
X19_ShortRowIsAnError ==
    ImportedShortRow
    => /\ \A row_num \in ShortRows : ErrorsNaming(row_num) # {}
       /\ last.result.error_count = Cardinality(ShortRows) + Cardinality(BadDateRows)
       /\ ValidRowsPersisted

\* C19, amended: a data row shorter than the required column count is skipped
\* without an entry in the error list and without being counted in
\* error_count, which counts the rows with unparseable dates only; the import
\* continues with the next row, so every valid row of the file is persisted.
T19_ShortRowSkippedSilently ==
    ImportedShortRow
    => /\ \A row_num \in ShortRows : ErrorsNaming(row_num) = {}
       /\ last.result.error_count = Cardinality(BadDateRows)
       /\ Len(last.result.errors) = last.result.error_count
       /\ last.result.total_rows = Len(Requests[last.request].csv_content) - 1
       /\ ValidRowsPersisted

\* a file with a short row between two valid rows was imported into an account
\* that had neither, and both were added
W19_ShortRowBetweenValidRows ==
    /\ ImportedShortRow
    /\ \E row_num \in ShortRows : \E i, j \in ValidRows :
           /\ i + 1 < row_num /\ row_num < j + 1
           /\ RowId(i) \notin existing_ids(last.before.transactions, last.account_id)
           /\ RowId(j) \notin existing_ids(last.before.transactions, last.account_id)
    /\ last.added = 2 /\ last.result.imported = 2

(***************************************************************************)
(* Properties of the rate limiter (SpecRate)                               *)
(***************************************************************************)

\* the number of API calls recorded for an account on a day
CallsOn(account_id, day) ==
    Cardinality({i \in DOMAIN api_calls : api_calls[i] = <<account_id, day>>})

\* C18, as stated: after any sequence of check_rate_limit and record_api_call
\* operations over one or more days, check_rate_limit returns true exactly when
\* fewer than DAILY_API_CALL_LIMIT calls have been recorded for the account on
\* the current day; calls recorded on earlier days do not count.
X18_AllowedIffUnderLimitToday ==
    last.op = "check_rate_limit"
    => (last.result <=> CallsOn(last.arg[1], today) < DAILY_API_CALL_LIMIT)


(***************************************************************************)
(* Properties of the cell parsers and of format detection (SpecParse)      *)
(***************************************************************************)

\* detect_bank_format has returned for a file without a file name
Detected == fn_out.done /\ fn_in.fn = "detect_bank_format"

\* the lowered header cells of the file read with the d-th delimiter
HeaderCells(d) == headers_lower(csv_row(fn_in.csv_content[1], DetectDelimiters[d]))

\* the non-generic formats
SpecificKeys == FormatKeys \ {"generic"}

\* the points a header read with the d-th delimiter gives the format of a key
PointsOf(key, d) ==
    LET points(config, lowered) ==
            [date |-> AnyCandidate(lowered, config.date_column),
             amount |-> AnyCandidate(lowered, config.amount_column),
             description |-> AnyCandidate(lowered, config.description_column),
             delimiter |-> config.delimiter = DetectDelimiters[d],
             columns |-> Len(lowered)]
    IN  points(FormatOf(key), HeaderCells(d))

\* 10 for the date name, 10 for the amount name, 5 for the description name,
\* 5 for the delimiter
ScoreOf(p) ==
    (IF p.date THEN 10 ELSE 0) + (IF p.amount THEN 10 ELSE 0)
    + (IF p.description THEN 5 ELSE 0) + (IF p.delimiter THEN 5 ELSE 0)

\* C15: without a file name, detect_bank_format returns a non-generic format
\* only if, for some delimiter, that format's score (10 date name, 10 amount
\* name, 5 description name, 5 delimiter) exceeds 15, and then at least two of
\* date name, amount name and delimiter match; a header in which no format
\* finds a column name gives 'generic'; a header in which some format finds its
\* date and its amount name gives a non-generic format.
T15_SpecificOnlyAboveThreshold ==
    Detected =>
        /\ fn_out.value # "generic" =>
               \E d \in DOMAIN DetectDelimiters :
                   LET trusted(p) ==
                           /\ p.columns >= 2
                           /\ ScoreOf(p) > 15
                           /\ \/ p.date /\ p.amount
                              \/ p.date /\ p.delimiter
                              \/ p.amount /\ p.delimiter
                   IN  trusted(PointsOf(fn_out.value, d))
        /\ (\A d \in DOMAIN DetectDelimiters : \A key \in SpecificKeys :
                LET nameless(p) == ~p.date /\ ~p.amount /\ ~p.description
                IN  nameless(PointsOf(key, d)))
            => fn_out.value = "generic"
        /\ (\E d \in DOMAIN DetectDelimiters : \E key \in SpecificKeys :
                LET both(p) == p.date /\ p.amount
                IN  both(PointsOf(key, d)))
            => fn_out.value # "generic"

\* a header with a date and a description name but no amount name was detected
\* as a specific format that scores 20 with its own delimiter
W15_DateDescriptionDelimiter ==
    /\ Detected /\ fn_out.value # "generic"
    /\ \E d \in DOMAIN DetectDelimiters :
           LET twenty(p) == p.date /\ ~p.amount /\ p.description /\ p.delimiter
           IN  twenty(PointsOf(fn_out.value, d))


\* parse_amount has returned
ParsedAmount == fn_out.done /\ fn_in.fn = "parse_amount"

\* the amount a cell states: the cell without blanks, without a currency code
\* or glyph at its start or end and without thousand separators, the other
\* separator read as the decimal point; negated when it stands in parentheses
\* or ends in DR, as written when it ends in CR; zero when what is left is no
\* decimal number
StatedAmount(value, decimal_separator) ==
    LET decimal(negated, d) ==
            IF d < 0 THEN Zero ELSE Num(IF negated THEN 0 - d ELSE d)
        number(negated, t) ==
            IF StartsWith(t, "-") THEN decimal(~negated, DecimalOf(Tail1(t)))
            ELSE IF StartsWith(t, "+") THEN decimal(negated, DecimalOf(Tail1(t)))
            ELSE decimal(negated, DecimalOf(t))
        marked(t, upper) ==
            IF StartsWith(t, "(") /\ EndsWith(t, ")")
            THEN number(TRUE, SubSeq(t, 2, Len(t) - 1))
            ELSE IF EndsWith(upper, "DR") THEN number(TRUE, SubSeq(t, 1, Len(t) - 2))
            ELSE IF EndsWith(upper, "CR") THEN number(FALSE, SubSeq(t, 1, Len(t) - 2))
            ELSE number(FALSE, t)
        pointed(t) == marked(t, Upper(t))
        bare(t) == pointed(IF decimal_separator = ","
                           THEN Replace(DropChars(t, {"."}), ",", ".")
                           ELSE DropChars(t, {","}))
    IN  bare(DropChars(StripTrailingCode(StripLeadingCode(Strip(value))),
                       CurrencyGlyphs \cup {" ", "\t"}))

\* C16, as stated: parse_amount raises nothing and returns the amount the cell
\* states: thousand separators dropped and the decimal separator read as the
\* point, negated for parentheses and for a trailing DR, as written for a
\* trailing CR, currency code and glyph ignored, and 0.0 for an empty cell and
\* for a cell that holds no number.
X16_AmountAsStatedOrZero ==
    ParsedAmount => fn_out.value = StatedAmount(fn_in.value, fn_in.decimal_separator)


\* parse_date has returned
ParsedDate == fn_out.done /\ fn_in.fn = "parse_date"

\* the formats of the list, by position, that strictly parse the text
ParsingFormats(text, formats) == {k \in DOMAIN formats : strptime(text, formats[k]) # NoDate}

\* C17: parse_date returns the date of the first format of the list, in list
\* order, that strictly parses the trimmed input; if no format of the list
\* parses it, what ISO-8601 parsing gives; and null, raising nothing, if that
\* fails too or the input is empty or blank.
T17_FirstParsingFormatThenIso ==
    ParsedDate =>
        LET expected(text, parsing) ==
                IF text = "" THEN NoDate
                ELSE IF parsing # {}
                     THEN strptime(text, fn_in.formats[CHOOSE k \in parsing :
                                                          \A j \in parsing : k <= j])
                     ELSE fromisoformat(Replace(text, "Z", "+00:00"))
        IN  fn_out.value = expected(Strip(fn_in.value),
                                    ParsingFormats(Strip(fn_in.value), fn_in.formats))

\* a padded date was parsed that two formats of the list read as different days
W17_TwoFormatsDisagree ==
    /\ ParsedDate /\ fn_out.value # NoDate /\ Strip(fn_in.value) # fn_in.value
    /\ \E j, k \in ParsingFormats(Strip(fn_in.value), fn_in.formats) :
           strptime(Strip(fn_in.value), fn_in.formats[j])
               # strptime(Strip(fn_in.value), fn_in.formats[k])


\* the scores of all non-generic formats for the header read with each of the
\* delimiters that cuts it into two or more cells
AllScores ==
    {ScoreOf(PointsOf(key, d)) : <<key, d>> \in
        {kd \in SpecificKeys \X DOMAIN DetectDelimiters : Len(HeaderCells(kd[2])) >= 2}}

\* C20, as stated: without a file name, whenever the highest score of any
\* non-generic format under any of the three delimiters exceeds 15,
\* detect_bank_format returns a non-generic format that has that highest score.
X20_HighestScoreOverAllDelimiters ==
    Detected =>
        \A top \in AllScores :
            (top > 15 /\ \A score \in AllScores : score <= top)
            => /\ fn_out.value # "generic"
               /\ \E d \in DOMAIN DetectDelimiters :
                      /\ Len(HeaderCells(d)) >= 2
                      /\ ScoreOf(PointsOf(fn_out.value, d)) = top


(***************************************************************************)
(* Properties of the rows of an imported file (Spec)                       *)
(***************************************************************************)

\* the row numbers of the data rows of the last import's file that are long
\* enough and whose date parses, and the date of such a row as it is stored
DatedRows == {row_num \in DOMAIN LastRows : LastRows[row_num].date # NoDate}

DateOfRow(row_num) == isoformat(LastRows[row_num].date)

\* the parsed debit and credit cells of a row
DebitOf(row_num) == LastRows[row_num].debit
CreditOf(row_num) == LastRows[row_num].credit

\* the last import's file has a debit and a credit column
ImportedDebitCredit ==
    Imported /\ LastCols.debit_col # NoCol /\ LastCols.credit_col # NoCol

\* the stored transactions of the last import's account with a date and an amount
StoredWith(booking_date, amount) ==
    {t \in transactions : /\ t.account_id = last.account_id
                          /\ t.booking_date = booking_date
                          /\ t.amount = amount}

\* C21, as stated: with a debit and a credit column in the header, the amount
\* of each row is credit - debit, and -|debit| for a row in which only the
\* debit cell carries a value: every such row with a date and an amount other
\* than zero is in the store with that amount.
X21_AmountIsCreditMinusDebit ==
    ImportedDebitCredit =>
        \A row_num \in DatedRows :
            LET stated(only_debit, debit, credit) ==
                    IF only_debit THEN AmtNeg(AmtAbs(debit)) ELSE AmtSub(credit, debit)
                stored(amount) ==
                    ~AmtIsZero(amount) => StoredWith(DateOfRow(row_num), amount) # {}
            IN  stored(stated(/\ LastRows[row_num].credit_cell = ""
                              /\ LastRows[row_num].debit_cell # "",
                              DebitOf(row_num), CreditOf(row_num)))

\* C21, amended: with a debit and a credit column in the header, the amount of
\* a row is credit - debit when the parsed credit is not zero, and -|debit|
\* when it is zero (an empty, unparsable or 0.00 credit cell): every such row
\* with a date and an amount other than zero is in the store with that amount.
T21_CreditMinusDebitUnlessNoCredit ==
    ImportedDebitCredit =>
        \A row_num \in DatedRows :
            LET stated(debit, credit) ==
                    IF AmtIsZero(credit) THEN AmtNeg(AmtAbs(debit)) ELSE AmtSub(credit, debit)
                stored(amount) ==
                    ~AmtIsZero(amount) => StoredWith(DateOfRow(row_num), amount) # {}
            IN  stored(stated(DebitOf(row_num), CreditOf(row_num)))

\* a file was imported in which one row has a debit only, one a credit only,
\* one both, and one a negative debit next to a credit of 0.00
W21_DebitOnlyCreditOnlyBoth ==
    /\ ImportedDebitCredit
    /\ \E a, b, c, d \in DatedRows :
           /\ AmtIsZero(CreditOf(a)) /\ AmtGt(DebitOf(a), 0)
           /\ AmtGt(CreditOf(b), 0) /\ AmtIsZero(DebitOf(b))
           /\ AmtGt(CreditOf(c), 0) /\ AmtGt(DebitOf(c), 0)
           /\ AmtLt(DebitOf(d), 0) /\ AmtIsZero(CreditOf(d))
           /\ LastRows[d].credit_cell # ""
           /\ StoredWith(DateOfRow(d), DebitOf(d)) # {}


\* the amount the row loop works with: that of the debit and credit cells when
\* the header has both columns, else that of the amount cell
ComputedAmount(row_num) ==
    IF LastCols.debit_col # NoCol /\ LastCols.credit_col # NoCol
    THEN (IF AmtIsZero(CreditOf(row_num)) THEN AmtNeg(AmtAbs(DebitOf(row_num)))
          ELSE AmtSub(CreditOf(row_num), DebitOf(row_num)))
    ELSE LastRows[row_num].amount

\* the dated rows of the last import's file whose computed amount is zero
ZeroRows == {row_num \in DatedRows : AmtIsZero(ComputedAmount(row_num))}

\* the rows of the last import's file whose date does not parse
UndatedRows == {row_num \in DOMAIN LastRows : row_num \notin ShortRows \cup DatedRows}

\* the known set import_csv holds when its row loop ends
KnownSetAfterLoop ==
    LET known(loop) == loop.existing_hashes
    IN  known(row_loop(Plans[last.request][last.account_id].outcomes, 1,
                       [transactions |-> <<>>, duplicates |-> <<>>, errors |-> <<>>,
                        existing_hashes |-> existing_ids(last.before.transactions,
                                                         last.account_id)]))

\* C22: a data row with a parseable date whose computed amount is exactly zero
\* is skipped: no transaction with amount zero is in the store, no error names
\* the row, the rows counted as imported, duplicate or error are the other
\* rows, the known set holds only the ids the account had and the ids of the
\* rows listed for storing, and total_rows counts the row.
T22_ZeroAmountRowSkipped ==
    (Imported /\ ZeroRows # {}) =>
        /\ \A t \in transactions : ~AmtIsZero(t.amount)
        /\ \A row_num \in ZeroRows : ErrorsNaming(row_num) = {}
        /\ last.result.error_count = Cardinality(UndatedRows)
        /\ last.result.imported + last.result.duplicates
               = Cardinality(DatedRows \ ZeroRows)
        /\ KnownSetAfterLoop
               = existing_ids(last.before.transactions, last.account_id)
                     \cup {last.result.transactions[i] : i \in DOMAIN last.result.transactions}
        /\ last.result.total_rows = Cardinality(DOMAIN LastRows)

\* a file was imported in which a row with amount zero comes after rows that
\* were stored
W22_ZeroRowAfterStoredRows ==
    /\ Imported /\ last.added >= 1
    /\ \E zero \in ZeroRows : \E row_num \in DatedRows \ ZeroRows : row_num < zero


(***************************************************************************)
(* Properties of the store across operations (Spec)                        *)
(***************************************************************************)

\* the fields of a transaction that identify what was imported
Imported5(t) ==
    [id |-> t.id, account_id |-> t.account_id, booking_date |-> t.booking_date,
     amount |-> t.amount, description |-> t.description]

\* C23: a step that is a delete_csv_account(A) run removes every transaction
\* of account A and no other; every other step (import_csv, a re-import,
\* auto_categorize_recent, set_transaction_category, a new day) keeps every
\* stored transaction with its id, account_id, booking_date, amount and
\* description.
T23_RemovedOnlyWithItsAccount ==
    [][IF today' = today /\ last'.op = "delete_csv_account"
       THEN transactions' = {t \in transactions : t.account_id # last'.account_id}
       ELSE \A t \in transactions : \E u \in transactions' : Imported5(u) = Imported5(t)]_vars

\* an account with transactions was removed while another account had
\* transactions, and those are still in the store
W23_OneOfTwoAccountsRemoved ==
    /\ last.op = "delete_csv_account" /\ last.result.success
    /\ \E t \in last.before.transactions : t.account_id = last.account_id
    /\ transactions # {}
    /\ transactions = {t \in last.before.transactions : t.account_id # last.account_id}


\* the dated rows of the last import's file whose computed amount is a number
\* other than zero
NumberedRows == {row_num \in DatedRows \ ZeroRows : ComputedAmount(row_num).k = "num"}

\* C24, as stated: when the format's description column is found in the
\* header, at whatever index, every accepted row is in the store under the id
\* made from account, date, amount and the trimmed cell of that column, with
\* that description (up to case and spacing, which the id ignores), so rows
\* with equal date and amount and different descriptions are stored as
\* different transactions.
X24_DescriptionColumnAtAnyIndex ==
    (Imported /\ LastCols.desc_col # NoCol) =>
        \A row_num \in NumberedRows :
            \E t \in StoredWith(DateOfRow(row_num), ComputedAmount(row_num)) :
                /\ desc_normalized(t.description)
                       = desc_normalized(LastRows[row_num].description_cell)
                /\ t.id = create_transaction_hash(last.account_id, DateOfRow(row_num),
                                                  ComputedAmount(row_num),
                                                  LastRows[row_num].description_cell)


\* the requests without a forced format and without a file name that names a
\* format, for which detect_bank_format chose a non-generic format whose date
\* and amount column names are in the header read with one of the delimiters
DetectedByNames ==
    LET matched(config, lowered) ==
            /\ Len(lowered) >= 2
            /\ AnyCandidate(lowered, config.date_column)
            /\ AnyCandidate(lowered, config.amount_column)
        by_content(request) ==
            /\ ~(request.bank_format # None /\ request.bank_format \in FormatKeys)
            /\ (request.filename = None \/ FilenameMatches(request.filename) = {})
            /\ request.csv_content # <<>>
    IN  {r \in DOMAIN Requests :
            /\ by_content(Requests[r])
            /\ ChosenFormats[r] # "generic"
            /\ \E d \in DOMAIN DetectDelimiters :
                   matched(FormatOf(ChosenFormats[r]),
                           headers_lower(csv_row(Requests[r].csv_content[1],
                                                 DetectDelimiters[d])))}

\* C25, as stated: when detect_bank_format chose a non-generic format for a
\* file because the header holds that format's date and amount column names,
\* import_csv of the file without a forced format does not raise the
\* CSVImportError of a missing date or amount column.
X25_DetectedFormatFindsItsColumns ==
    (last.op = "import_csv" /\ last.request \in DetectedByNames)
        => last.raised \notin {"Could not find date column", "Could not find amount column"}


\* the last operation was a set_transaction_category call
Overrode == last.op = "set_transaction_category"

\* the stored transactions the last operation changed
ChangedByLast == {t \in transactions : t \notin last.before.transactions}

\* C26, as stated: set_transaction_category(p, c) changes the category and the
\* category_source of at most one stored transaction, and only of one whose
\* id begins with what the caller typed.
X26_OverrideChangesAtMostOne ==
    Overrode =>
        /\ Cardinality(ChangedByLast) <= 1
        /\ \A t \in ChangedByLast : StartsWith(t.id, last.arg[1])


(***************************************************************************)
(* Properties of interleaved runs (SpecRace)                               *)
(***************************************************************************)

\* C27, as stated: when a user override of a transaction is committed after an
\* auto_categorize_recent run has read the transaction as uncategorized and
\* before the run's bulk update, the transaction has the user's category and
\* category_source 'user' after the run has completed.
X27_OverrideSurvivesBulkUpdate ==
    \A p \in DOMAIN runs :
        (runs[p].pc = "done" /\ runs[p].op = "auto_categorize_recent") =>
            \A o \in runs[p].overridden :
                \E t \in transactions :
                    t.id = o[1] /\ t.category = o[2] /\ t.category_source = "user"

\* C28, as stated: the 'imported' count an import_csv run reports is the
\* number of transactions the run added to the store, also when another
\* import of overlapping rows into the same account loads the account's ids
\* before this run inserts.
X28_ImportedIsWhatWasAdded ==
    \A p \in DOMAIN runs :
        (runs[p].pc = "done" /\ runs[p].op = "import_csv") =>
            runs[p].imported = runs[p].added


(***************************************************************************)
(* Properties of the counts of an import's result (Spec)                   *)
(***************************************************************************)

\* the rows of the last import's file that the row loop passes over without
\* a word: too short, or dated with a computed amount of zero (which is also
\* what an amount cell that does not parse gives)
SilentlySkipped == ShortRows \cup ZeroRows

\* imported + duplicates + error_count of the last import's result
CountedRows == last.result.imported + last.result.duplicates + last.result.error_count

\* C29: in the result of every successful import_csv each data row is counted
\* in exactly one of four groups, imported, duplicate, row error or silently
\* skipped: the three counts and the number of silently skipped rows add up to
\* total_rows, the number of data rows of the file; hence imported +
\* duplicates + error_count <= total_rows, with equality exactly when no row
\* was silently skipped.
T29_EveryRowInOneGroup ==
    Imported =>
        /\ last.result.total_rows = Len(Requests[last.request].csv_content) - 1
        /\ last.result.imported = Len(last.result.transactions)
        /\ last.result.error_count = Cardinality(UndatedRows)
        /\ CountedRows + Cardinality(SilentlySkipped) = last.result.total_rows
        /\ CountedRows <= last.result.total_rows
        /\ (CountedRows = last.result.total_rows) <=> (SilentlySkipped = {})

\* an import whose file has rows of all four groups
W29_AllFourGroups ==
    /\ Imported
    /\ last.result.imported >= 1 /\ last.result.duplicates >= 1
    /\ last.result.error_count >= 1 /\ SilentlySkipped # {}


(***************************************************************************)
(* Properties of a rule that was added (SpecMatch)                         *)
(***************************************************************************)

\* a transaction was categorized with the rule file that the call
\* add_merchant_rule(s, c), which returned True, has written
CategorizedAfterRule ==
    /\ last.op = "add_merchant_rule" /\ last.result = TRUE
    /\ cat_out # Idle

\* the categories of the rule set before the call, and the position of the
\* first one named c
RulesBefore == load_categories(last.before).categories
RulePosition ==
    CHOOSE i \in DOMAIN RulesBefore :
        /\ RulesBefore[i].name = Lower(last.arg[2])
        /\ \A j \in 1..(i - 1) : RulesBefore[j].name # Lower(last.arg[2])

\* the categories before c, in the rule set before the call, that match the
\* categorized transaction
EarlierMatches ==
    {i \in 1..(RulePosition - 1) : category_matches(RulesBefore[i], CombinedText)}

\* C30, as stated: after add_merchant_rule(s, c) has returned True, a
\* transaction without user override whose combined text contains s, in
\* whatever case, is categorized as c or as a category defined before c in the
\* rule set; and a transaction that a category before c matched already gets
\* the category it got before the call.
X30_AddedRuleMatchesFromItsCategoryOn ==
    (CategorizedAfterRule /\ cat_in.category_source # "user") =>
        /\ Contains(CombinedText, Lower(last.arg[1]))
               => \E i \in 1..RulePosition : cat_out = RulesBefore[i].name
        /\ EarlierMatches # {}
               => cat_out = categorize_transaction(cat_in, load_categories(last.before))

====
